---- MODULE Spec2Model ----
(***************************************************************************)
(* A model of sgpt: configuration validation (pkg/config), the command's   *)
(* chunk loop (cmd/sgpt main), the transport client (pkg/transport) and    *)
(* the three vendor adapters (pkg/provider/{openai,anthropic,gemini}).     *)
(*                                                                         *)
(* Representation of Go values:                                            *)
(*  - a string whose prefix or characters the code inspects is a sequence  *)
(*    of pieces (model identifiers, paths: <<"gpt-", "4o">>), cut so that  *)
(*    every prefix the code tests is a whole number of pieces, or of       *)
(*    single characters (texts: <<"a", " ">>); the empty string is <<>>;   *)
(*  - a string that is only compared is a TLA+ string;                     *)
(*  - a float64 is a record [nan, h]: NaN, or h halves (h = 2 is 1.0);     *)
(*  - an error is a record [is, msg]: the sentinel it wraps ("" when it    *)
(*    wraps none) and its message, [arg] the value formatted into it;      *)
(*    Nil is the nil error.                                                *)
(***************************************************************************)
EXTENDS Integers, Sequences, FiniteSets, TLC

VARIABLES
    logger,     \* whether the transport client and the adapter hold a logger
    sources,    \* the flags given, the environment and the config file
    raw,        \* the merged flag/env/file values Load reads from viper
    loaded,     \* what Validate left in Load's cfg, and the error it returned
    cfg,        \* main's cfg (Config{} when Load failed)
    pc,         \* main's position
    exitCode,   \* process exit status; -1 while running
    llm,        \* the adapter main selected ("" before selection)
    input,      \* main's input: the lines of stdin, or the remaining arguments
    inputs,     \* strings.Split(input, cfg.Separator)
    idx,        \* index of the chunk the loop is at
    call,       \* the adapter call in progress
    sent,       \* HTTP requests handed to the http client, in order
    out,        \* characters written to stdout, in order
    cancelled,  \* whether the shared context was cancelled
    server      \* the answers the server may give to a request

vars == <<logger, sources, raw, loaded, cfg, pc, exitCode, llm, input, inputs, idx, call, sent, out,
          cancelled, server>>

(***************************************************************************)
(* Bounds                                                                  *)
(***************************************************************************)
\* halves below 0.0 and above 1.0 the temperature ranges over
TempBelow == 1
TempAbove == 1
\* longest stdin text
MaxInput == 3
\* longest text typed on a terminal
MaxTyped == 1
\* most lines a server sends in one event stream
MaxLines == 3
\* longest generated text
MaxText == 2

\* the sequences over S of length at most n
SeqsUpTo(S, n) == UNION {[1..k -> S] : k \in 0..n}

(***************************************************************************)
(* Strings and floats                                                      *)
(***************************************************************************)
\* strings.HasPrefix
HasPrefix(s, p) == Len(s) >= Len(p) /\ SubSeq(s, 1, Len(p)) = p

\* strings.TrimPrefix
TrimPrefix(s, p) == IF HasPrefix(s, p) THEN SubSeq(s, Len(p) + 1, Len(s)) ELSE s

\* unicode.IsSpace on the characters of the model
IsSpace(ch) == ch \in {" ", "\n", "\r", "\t"}

RECURSIVE TrimLeft(_)
TrimLeft(s) == IF s # <<>> /\ IsSpace(Head(s)) THEN TrimLeft(Tail(s)) ELSE s

RECURSIVE TrimRight(_)
TrimRight(s) ==
    IF s # <<>> /\ IsSpace(s[Len(s)]) THEN TrimRight(SubSeq(s, 1, Len(s) - 1)) ELSE s

\* TrimSpace that forgets the trailing whitespace
TrimSpace_LeftOnly(s) == TrimLeft(s)

\* strings.TrimSpace
TrimSpace(s) == TrimRight(TrimLeft(s))

\* a float64 that is a number of halves, and NaN
F(h) == [nan |-> FALSE, h |-> h]
NaN == [nan |-> TRUE, h |-> 0]
\* 1.0 in halves
TempOne == 2
\* Go's < and > on float64: every comparison with NaN is false
FLess(a, b) == ~a.nan /\ ~b.nan /\ a.h < b.h
FGreater(a, b) == ~a.nan /\ ~b.nan /\ a.h > b.h

(***************************************************************************)
(* errors                                                                  *)
(***************************************************************************)
Nil == [is |-> "", msg |-> "", arg |-> ""]
\* errors.New / fmt.Errorf without a wrapped sentinel
ErrorNew(msg) == [is |-> "", msg |-> msg, arg |-> ""]
\* fmt.Errorf(format, arg) without a wrapped sentinel
ErrorArg(msg, arg) == [is |-> "", msg |-> msg, arg |-> arg]
\* a sentinel itself, and fmt.Errorf("%w: ...", sentinel, ...)
ErrorWrap(sentinel, msg) == [is |-> sentinel, msg |-> msg, arg |-> ""]
ErrUnsupportedModel == "unsupported model"
ErrAPIRequestFailed == "API request failed"
ErrNoResponseGenerated == "no response generated"

(***************************************************************************)
(* pkg/config                                                              *)
(***************************************************************************)
Caps(mm, st) == [Multimodal |-> mm, Streaming |-> st]

modelCapabilities ==
    (<<"gpt-", "4o">> :> Caps(TRUE, TRUE)) @@
    (<<"gpt-", "4">> :> Caps(FALSE, TRUE)) @@
    (<<"gpt-", "4-0314">> :> Caps(FALSE, TRUE)) @@
    (<<"gpt-", "4-32k">> :> Caps(FALSE, TRUE)) @@
    (<<"gpt-", "4-32k-0314">> :> Caps(FALSE, TRUE)) @@
    (<<"gpt-", "3.5-turbo">> :> Caps(FALSE, TRUE)) @@
    (<<"text-", "davinci-003">> :> Caps(FALSE, FALSE)) @@
    (<<"text-", "davinci-002">> :> Caps(FALSE, FALSE)) @@
    (<<"text-", "curie-001">> :> Caps(FALSE, FALSE)) @@
    (<<"text-", "babbage-001">> :> Caps(FALSE, FALSE)) @@
    (<<"text-", "ada-001">> :> Caps(FALSE, FALSE)) @@
    (<<"claude-", "v1">> :> Caps(FALSE, TRUE)) @@
    (<<"claude-", "v1.2">> :> Caps(FALSE, TRUE)) @@
    (<<"gemini-", "medium">> :> Caps(TRUE, TRUE)) @@
    (<<"gemini-", "large">> :> Caps(TRUE, TRUE))

\* the zero ModelCapabilities
ZeroCaps == Caps(FALSE, FALSE)

\* the zero Config, which Load returns with an error
ZeroConfig ==
    [APIKey |-> "", Provider |-> "", Model |-> <<>>, ModelCaps |-> ZeroCaps,
     Instruction |-> <<>>, Temperature |-> F(0), Separator |-> "",
     ImagePath |-> <<>>, AudioPath |-> <<>>]

\* defaults of which google's is a name the capability table lacks
DefaultModel_Unlisted(p) ==
    CASE p = "openai" -> <<"gpt-", "3.5-turbo">>
      [] p = "anthropic" -> <<"claude-", "v1">>
      [] p = "google" -> <<"gemini-", "pro">>
      [] OTHER -> <<>>

\* the default model Validate assigns
DefaultModel(p) ==
    CASE p = "openai" -> <<"gpt-", "3.5-turbo">>
      [] p = "anthropic" -> <<"claude-", "v1">>
      [] p = "google" -> <<"gemini-", "medium">>
      [] OTHER -> <<>>

\* a default that also replaces a model the table does not know
WithDefaultModel_Fallback(c) ==
    IF c.Model \notin DOMAIN modelCapabilities
    THEN [c EXCEPT !.Model = DefaultModel(c.Provider)] ELSE c

\* the model after "Set default model if not specified"
WithDefaultModel(c) ==
    IF c.Model = <<>> THEN [c EXCEPT !.Model = DefaultModel(c.Provider)] ELSE c

\* a temperature test that excludes the endpoints
TemperatureOutOfRange_Exclusive(t) == ~t.nan /\ (t.h <= 0 \/ t.h >= TempOne)

\* the temperature test of Validate
TemperatureOutOfRange(t) == FLess(t, F(0)) \/ FGreater(t, F(TempOne))

\* a multimodal test that forgets the audio path
MultimodalViolation_ImageOnly(c) == c.ImagePath # <<>> /\ ~c.ModelCaps.Multimodal

\* the multimodal test of Validate
MultimodalViolation(c) ==
    (c.ImagePath # <<>> \/ c.AudioPath # <<>>) /\ ~c.ModelCaps.Multimodal

\* the provider switch of Validate
ProviderRecognized(p) == p \in {"openai", "anthropic", "google"}

\* Validate with the provider checked before the API key
Validate_ProviderFirst(c) ==
    IF ~ProviderRecognized(c.Provider)
    THEN [c |-> c, err |-> ErrorNew("unsupported provider")]
    ELSE IF c.APIKey = ""
    THEN [c |-> c, err |-> ErrorNew("API key is required")]
    ELSE LET d == WithDefaultModel(c) IN
         IF d.Model \notin DOMAIN modelCapabilities
         THEN [c |-> d, err |-> ErrorNew("unsupported model")]
         ELSE LET e == [d EXCEPT !.ModelCaps = modelCapabilities[d.Model]] IN
              IF MultimodalViolation(e)
              THEN [c |-> e, err |-> ErrorNew("model does not support multimodal inputs")]
              ELSE IF TemperatureOutOfRange(e.Temperature)
              THEN [c |-> e, err |-> ErrorNew("temperature must be between 0 and 1")]
              ELSE [c |-> e, err |-> Nil]

\* (c *Config) Validate: the struct as Validate leaves it, and the error
Validate(c) ==
    IF c.APIKey = ""
    THEN [c |-> c, err |-> ErrorNew("API key is required")]
    ELSE IF ~ProviderRecognized(c.Provider)
    THEN [c |-> c, err |-> ErrorNew("unsupported provider")]
    ELSE LET d == WithDefaultModel(c) IN
         IF d.Model \notin DOMAIN modelCapabilities
         THEN [c |-> d, err |-> ErrorNew("unsupported model")]
         ELSE LET e == [d EXCEPT !.ModelCaps = modelCapabilities[d.Model]] IN
              IF MultimodalViolation(e)
              THEN [c |-> e, err |-> ErrorNew("model does not support multimodal inputs")]
              ELSE IF TemperatureOutOfRange(e.Temperature)
              THEN [c |-> e, err |-> ErrorNew("temperature must be between 0 and 1")]
              ELSE [c |-> e, err |-> Nil]

(***************************************************************************)
(* pkg/provider: Request, Response, multimodal helpers                     *)
(***************************************************************************)
\* provider.Request
Request(model, instruction, inp, temperature, image, audio, stream) ==
    [Model |-> model, Instruction |-> instruction, Input |-> inp,
     Temperature |-> temperature, ImagePath |-> image, AudioPath |-> audio,
     Stream |-> stream]

ZeroRequest == Request(<<>>, <<>>, <<>>, F(0), <<>>, <<>>, FALSE)

\* the files os.ReadFile can read, with their bytes
Files == (<<"a.png">> :> "PNG-BYTES") @@ (<<"a.wav">> :> "WAV-BYTES")

\* base64.StdEncoding.EncodeToString
Base64(bytes) == <<"base64(", bytes, ")">>

\* a loader that returns the bare base64 text of a file
LoadImageAsBase64_Bare(path) ==
    IF HasPrefix(path, <<"http", "://">>) \/ HasPrefix(path, <<"http", "s://">>)
    THEN [val |-> path, err |-> Nil]
    ELSE IF path \notin DOMAIN Files
    THEN [val |-> <<>>, err |-> ErrorNew("failed to read image file")]
    ELSE [val |-> Base64(Files[path]), err |-> Nil]

\* provider.LoadImageAsBase64: [val, err]
LoadImageAsBase64(path) ==
    IF HasPrefix(path, <<"http", "://">>) \/ HasPrefix(path, <<"http", "s://">>)
    THEN [val |-> path, err |-> Nil]
    ELSE IF path \notin DOMAIN Files
    THEN [val |-> <<>>, err |-> ErrorNew("failed to read image file")]
    ELSE [val |-> <<"data:image/png;base64,">> \o Base64(Files[path]), err |-> Nil]

\* provider.LoadAudioAsBase64: [val, err]
LoadAudioAsBase64(path) ==
    IF path \notin DOMAIN Files
    THEN [val |-> <<>>, err |-> ErrorNew("failed to read audio file")]
    ELSE [val |-> <<"data:audio/wav;base64,">> \o Base64(Files[path]), err |-> Nil]

(***************************************************************************)
(* JSON documents.  A document carries every field an adapter decodes;     *)
(* a field a document does not have holds Go's zero value.                 *)
(***************************************************************************)
Doc(errmsg, choices, type, deltaText, content, candidates) ==
    [errmsg |-> errmsg,          \* error.message
     choices |-> choices,        \* choices[]: [content, text, delta, finish]
     type |-> type,              \* type
     deltaText |-> deltaText,    \* delta.text
     content |-> content,        \* content[]: [type, text]
     candidates |-> candidates]  \* candidates[]: content.parts[].text

EmptyDoc == Doc("", <<>>, "", <<>>, <<>>, <<>>)

\* a choice: message.content, text, delta.content, finish_reason
Choice(content, text, delta, finish) ==
    [content |-> content, text |-> text, delta |-> delta, finish |-> finish]

\* response bytes: whether json.Unmarshal accepts them, and the document
JsonBody(doc) == [nil |-> FALSE, ok |-> TRUE, doc |-> doc]
Malformed == [nil |-> FALSE, ok |-> FALSE, doc |-> EmptyDoc]
\* the nil []byte
NilBytes == [nil |-> TRUE, ok |-> FALSE, doc |-> EmptyDoc]

(***************************************************************************)
(* Request payloads                                                        *)
(***************************************************************************)
\* the JSON value an adapter marshals; fields it does not set are absent
\* (gemini's payload has no model and no stream field: <<>> and FALSE here)
Payload(model, messages, prompt, system, contents, systemInstruction, temperature, stream) ==
    [model |-> model, messages |-> messages, prompt |-> prompt, system |-> system,
     contents |-> contents, systemInstruction |-> systemInstruction,
     temperature |-> temperature, stream |-> stream]

Absent == <<"absent">>
NoPayload == Payload(<<>>, Absent, Absent, Absent, Absent, Absent, F(0), FALSE)

\* json.Marshal(requestBody): [payload, err]; encoding/json refuses a float64
\* that is NaN
Marshal(payload) ==
    IF payload.temperature.nan
    THEN [payload |-> NoPayload, err |-> ErrorArg("json: unsupported value: %s", "NaN")]
    ELSE [payload |-> payload, err |-> Nil]

Message(role, content) == [role |-> role, content |-> content]
Part(type, val) == [type |-> type, val |-> val]

OpenAIChatModels ==
    {<<"gpt-", "4">>, <<"gpt-", "4-0314">>, <<"gpt-", "4-32k">>,
     <<"gpt-", "4-32k-0314">>, <<"gpt-", "3.5-turbo">>}

OpenAILegacyModels ==
    {<<"text-", "davinci-003">>, <<"text-", "davinci-002">>, <<"text-", "curie-001">>,
     <<"text-", "babbage-001">>, <<"text-", "ada-001">>}

\* a "gpt-4o" case that sends the system message whatever the instruction
OpenAIMultimodalPayload_AlwaysSystem(req, stream) ==
    LET textPart == IF req.Input # <<>> THEN <<Part("text", req.Input)>> ELSE <<>>
        image == LoadImageAsBase64(req.ImagePath)
        audio == LoadAudioAsBase64(req.AudioPath)
        imagePart == IF req.ImagePath # <<>> THEN <<Part("image_url", image.val)>> ELSE <<>>
        audioPart == IF req.AudioPath # <<>> THEN <<Part("audio", audio.val)>> ELSE <<>>
    IN  IF req.ImagePath # <<>> /\ image.err # Nil
        THEN [payload |-> NoPayload, err |-> image.err]
        ELSE IF req.AudioPath # <<>> /\ audio.err # Nil
        THEN [payload |-> NoPayload, err |-> audio.err]
        ELSE Marshal(Payload(req.Model,
                             <<Message("system", req.Instruction),
                               Message("user", textPart \o imagePart \o audioPart)>>,
                             Absent, Absent, Absent, Absent, req.Temperature, stream))

\* the "gpt-4o" case of openai prepareRequestPayload
OpenAIMultimodalPayload(req, stream) ==
    LET system == IF req.Instruction # <<>>
                  THEN <<Message("system", req.Instruction)>> ELSE <<>>
        textPart == IF req.Input # <<>> THEN <<Part("text", req.Input)>> ELSE <<>>
        image == LoadImageAsBase64(req.ImagePath)
        audio == LoadAudioAsBase64(req.AudioPath)
        imagePart == IF req.ImagePath # <<>> THEN <<Part("image_url", image.val)>> ELSE <<>>
        audioPart == IF req.AudioPath # <<>> THEN <<Part("audio", audio.val)>> ELSE <<>>
    IN  IF req.ImagePath # <<>> /\ image.err # Nil
        THEN [payload |-> NoPayload, err |-> image.err]
        ELSE IF req.AudioPath # <<>> /\ audio.err # Nil
        THEN [payload |-> NoPayload, err |-> audio.err]
        ELSE Marshal(Payload(req.Model,
                             system \o <<Message("user", textPart \o imagePart \o audioPart)>>,
                             Absent, Absent, Absent, Absent, req.Temperature, stream))

\* openai (p *Provider) prepareRequestPayload: [payload, err]
OpenAIPreparePayload(req, stream) ==
    IF req.Model = <<"gpt-", "4o">>
    THEN OpenAIMultimodalPayload(req, stream)
    ELSE IF req.Model \in OpenAIChatModels
    THEN Marshal(Payload(req.Model,
                         <<Message("system", req.Instruction), Message("user", req.Input)>>,
                         Absent, Absent, Absent, Absent, req.Temperature, stream))
    ELSE IF req.Model \in OpenAILegacyModels
    THEN Marshal(Payload(req.Model, Absent, req.Instruction \o <<" ">> \o req.Input,
                         Absent, Absent, Absent, req.Temperature, stream))
    ELSE [payload |-> NoPayload, err |-> ErrorWrap(ErrUnsupportedModel, "unsupported model")]

\* anthropic (p *Provider) prepareRequestPayload: [payload, err]
AnthropicPreparePayload(req, stream) ==
    Marshal(Payload(req.Model, <<Message("user", req.Input)>>, Absent, req.Instruction,
                    Absent, Absent, req.Temperature, stream))

\* gemini (p *Provider) prepareRequestPayload: [payload, err]
GeminiPreparePayload(req, stream) ==
    LET image == LoadImageAsBase64(req.ImagePath)
        imagePart ==
            IF HasPrefix(image.val, <<"http">>)
            THEN Part("inline_data.url", image.val)
            ELSE Part("inline_data.data", TrimPrefix(image.val, <<"data:image/png;base64,">>))
        parts == <<Part("text", req.Input)>> \o
                 (IF req.ImagePath # <<>> THEN <<imagePart>> ELSE <<>>)
    IN  IF req.ImagePath # <<>> /\ image.err # Nil
        THEN [payload |-> NoPayload, err |-> ErrorNew("failed to load image")]
        ELSE Marshal(Payload(<<>>, Absent, Absent, Absent, <<Message("user", parts)>>,
                             IF req.Instruction # <<>> THEN req.Instruction ELSE Absent,
                             req.Temperature, FALSE))

\* the adapter's prepareRequestPayload
PreparePayload(vendor, req, stream) ==
    CASE vendor = "openai" -> OpenAIPreparePayload(req, stream)
      [] vendor = "anthropic" -> AnthropicPreparePayload(req, stream)
      [] vendor = "google" -> GeminiPreparePayload(req, stream)

\* an endpoint choice that sends every model to chat completions
determineEndpoint_AlwaysChat(model) == "ChatCompletionsEndpoint"

\* openai (p *Provider) determineEndpoint
determineEndpoint(model) ==
    IF HasPrefix(model, <<"gpt-">>) THEN "ChatCompletionsEndpoint" ELSE "CompletionsEndpoint"

\* the URL the adapter posts to
Endpoint(vendor, req) ==
    CASE vendor = "openai" -> <<determineEndpoint(req.Model)>>
      [] vendor = "anthropic" -> <<"MessagesEndpoint">>
      [] vendor = "google" -> <<"APIEndpoint">> \o req.Model

(***************************************************************************)
(* Response parsing                                                        *)
(***************************************************************************)
\* parseResponse without the test for an empty list
OpenAIParseResponse_NoEmptyCheck(body, model) ==
    IF ~body.ok
    THEN [text |-> <<>>, err |-> ErrorNew("failed to parse response")]
    ELSE IF Len(body.doc.choices) = 0
    THEN [text |-> <<>>, err |-> Nil]
    ELSE IF HasPrefix(model, <<"gpt-">>)
    THEN [text |-> TrimSpace(body.doc.choices[1].content), err |-> Nil]
    ELSE [text |-> TrimSpace(body.doc.choices[1].text), err |-> Nil]

\* openai (p *Provider) parseResponse: [text, err]
OpenAIParseResponse(body, model) ==
    IF ~body.ok
    THEN [text |-> <<>>, err |-> ErrorNew("failed to parse response")]
    ELSE IF Len(body.doc.choices) = 0
    THEN [text |-> <<>>, err |-> ErrorWrap(ErrNoResponseGenerated, "no response generated")]
    ELSE IF HasPrefix(model, <<"gpt-">>)
    THEN [text |-> TrimSpace(body.doc.choices[1].content), err |-> Nil]
    ELSE [text |-> TrimSpace(body.doc.choices[1].text), err |-> Nil]

\* the concatenation of the text of the blocks of type "text"
RECURSIVE TextBlocks(_)
TextBlocks(blocks) ==
    IF blocks = <<>> THEN <<>>
    ELSE (IF Head(blocks).type = "text" THEN Head(blocks).text ELSE <<>>)
         \o TextBlocks(Tail(blocks))

\* anthropic (p *Provider) parseResponse: [text, err]
AnthropicParseResponse(body) ==
    IF ~body.ok
    THEN [text |-> <<>>, err |-> ErrorNew("failed to parse response")]
    ELSE IF TextBlocks(body.doc.content) = <<>>
    THEN [text |-> <<>>, err |-> ErrorWrap(ErrNoResponseGenerated, "no response generated")]
    ELSE [text |-> TextBlocks(body.doc.content), err |-> Nil]

\* gemini (p *Provider) parseResponse: [text, err]
GeminiParseResponse(body) ==
    IF ~body.ok
    THEN [text |-> <<>>, err |-> ErrorNew("failed to parse response")]
    ELSE IF Len(body.doc.candidates) = 0 \/ Len(body.doc.candidates[1]) = 0
    THEN [text |-> <<>>, err |-> ErrorWrap(ErrNoResponseGenerated, "no response generated")]
    ELSE [text |-> body.doc.candidates[1][1], err |-> Nil]

\* the adapter's parseResponse
ParseResponse(vendor, body, model) ==
    CASE vendor = "openai" -> OpenAIParseResponse(body, model)
      [] vendor = "anthropic" -> AnthropicParseResponse(body)
      [] vendor = "google" -> GeminiParseResponse(body)

StatusOK == 200

\* strconv of a status code, as "%d" prints it
Itoa(n) == CASE n = 200 -> "200" [] n = 201 -> "201" [] n = 404 -> "404" [] n = 500 -> "500"

\* "Check for error response" of Complete and StreamComplete: the error for a
\* status other than 200, given the body read
ErrorResponse(status, body) ==
    IF body.ok /\ body.doc.errmsg # ""
    THEN ErrorArg("API error: %s", body.doc.errmsg)
    ELSE ErrorArg("API error: status %d", Itoa(status))

\* Complete from the response on: [text, raw, err]
CompleteResponse(vendor, req, reply, readFails) ==
    IF readFails
    THEN [text |-> <<>>, raw |-> NilBytes, err |-> ErrorNew("failed to read response body")]
    ELSE IF reply.status # StatusOK
    THEN [text |-> <<>>, raw |-> NilBytes, err |-> ErrorResponse(reply.status, reply.body)]
    ELSE LET parsed == ParseResponse(vendor, reply.body, req.Model) IN
         IF parsed.err # Nil
         THEN [text |-> <<>>, raw |-> NilBytes, err |-> parsed.err]
         ELSE [text |-> parsed.text, raw |-> reply.body, err |-> Nil]

(***************************************************************************)
(* Event streams                                                           *)
(***************************************************************************)
\* one line of an event stream:
\*   kind "blank"   an empty line
\*        "comment" a line starting with ":"
\*        "event"   "event: <event>"
\*        "data"    "data: <payload>", the payload being [DONE] (tag "done"),
\*                  a JSON document (tag "json") or other bytes (tag "bad")
\*        "other"   a line without ": "
Line(kind, event, tag, doc) == [kind |-> kind, event |-> event, tag |-> tag, doc |-> doc]
Blank == Line("blank", "", "", EmptyDoc)
Comment == Line("comment", "", "", EmptyDoc)
Other == Line("other", "", "", EmptyDoc)
Event(e) == Line("event", e, "", EmptyDoc)
DataDone == Line("data", "", "done", EmptyDoc)
DataBad == Line("data", "", "bad", EmptyDoc)
Data(doc) == Line("data", "", "json", doc)

StreamEvent == "content_block_delta"

\* what one pass of the loop does with a line: the text it prints and
\* whether it leaves the loop
Step(write, stop) == [write |-> write, stop |-> stop]
Skip == Step(<<>>, FALSE)

\* a loop body that takes the fragment from message.content
OpenAIStreamLine_MessageContent(line) ==
    IF line.kind # "data" THEN Skip
    ELSE IF line.tag = "done" THEN Step(<<>>, TRUE)
    ELSE IF line.tag = "bad" THEN Skip
    ELSE IF Len(line.doc.choices) > 0
    THEN Step(line.doc.choices[1].content, line.doc.choices[1].finish # "")
    ELSE Skip

\* a loop body that goes on after an event with a finish_reason
OpenAIStreamLine_IgnoresFinish(line) ==
    IF line.kind # "data" THEN Skip
    ELSE IF line.tag = "done" THEN Step(<<>>, TRUE)
    ELSE IF line.tag = "bad" THEN Skip
    ELSE IF Len(line.doc.choices) > 0
    THEN Step(line.doc.choices[1].delta, FALSE)
    ELSE Skip

\* the body of openai StreamComplete's loop, after the line was read
OpenAIStreamLine(line) ==
    IF line.kind \in {"blank", "comment"} THEN Skip
    ELSE IF line.kind = "other" THEN Skip
    ELSE IF line.kind # "data" THEN Skip
    ELSE IF line.tag = "done" THEN Step(<<>>, TRUE)
    ELSE IF line.tag = "bad" THEN Skip
    ELSE IF Len(line.doc.choices) > 0
    THEN Step(line.doc.choices[1].delta, line.doc.choices[1].finish # "")
    ELSE Skip

\* a loop body that leaves the loop on a payload that does not decode
AnthropicStreamLine_BadStops(line) ==
    IF line.kind \notin {"event", "data"} THEN Skip
    ELSE IF line.kind = "event" THEN Skip
    ELSE IF line.tag = "done" THEN Step(<<>>, TRUE)
    ELSE IF line.tag = "bad" THEN Step(<<>>, TRUE)
    ELSE IF line.doc.type = "content_block_delta" /\ line.doc.deltaText # <<>>
    THEN Step(line.doc.deltaText, FALSE)
    ELSE Skip

\* the body of anthropic StreamComplete's loop
AnthropicStreamLine(line) ==
    IF line.kind \notin {"event", "data"} THEN Skip
    ELSE IF line.kind = "event" THEN Skip
    ELSE IF line.tag = "done" THEN Step(<<>>, TRUE)
    ELSE IF line.tag = "bad" THEN Skip
    ELSE IF line.doc.type = "content_block_delta" /\ line.doc.deltaText # <<>>
    THEN Step(line.doc.deltaText, FALSE)
    ELSE Skip

\* the body of gemini StreamComplete's loop
GeminiStreamLine(line) ==
    IF line.kind # "data" THEN Skip
    ELSE IF line.tag = "done" THEN Step(<<>>, TRUE)
    ELSE IF line.tag = "bad" THEN Skip
    ELSE IF Len(line.doc.candidates) > 0 /\ Len(line.doc.candidates[1]) > 0
    THEN Step(line.doc.candidates[1][1], FALSE)
    ELSE Skip

StreamLine(vendor, line) ==
    CASE vendor = "openai" -> OpenAIStreamLine(line)
      [] vendor = "anthropic" -> AnthropicStreamLine(line)
      [] vendor = "google" -> GeminiStreamLine(line)

\* whether the loop logs a warning for the line: its payload does not decode
WarnsOn(vendor, line) == line.kind = "data" /\ line.tag = "bad"

\* whether the reader hands the loop the last line of a stream that ends
\* without a newline: bufio.Reader.ReadString returns it with io.EOF, on which
\* openai's loop breaks; bufio.Scanner returns it as a token
YieldsUnterminated(vendor) == vendor # "openai"

\* openai StreamComplete's model gate
StreamGate(vendor, req) ==
    IF vendor = "openai" /\ ~HasPrefix(req.Model, <<"gpt-">>)
    THEN ErrorWrap(ErrUnsupportedModel, "streaming not supported for model")
    ELSE Nil

(***************************************************************************)
(* The server                                                              *)
(***************************************************************************)
\* a server's answer to one request:
\*   neterr      the http client's Do fails (no response)
\*   status      the response's status code
\*   body        the response body, read whole
\*   lines       the response body, read line by line
\*   terminated  whether the last line ends with a newline
\*   readerr     reading the body fails (read by line: in a Read of its own,
\*               after the last byte of the lines was delivered)
Reply(neterr, status, body, lines, terminated, readerr) ==
    [neterr |-> neterr, status |-> status, body |-> body, lines |-> lines,
     terminated |-> terminated, readerr |-> readerr]

\* a JSON answer: read by line it is one line without ": "
JsonReply(status, body) == Reply(FALSE, status, body, <<Other>>, FALSE, FALSE)
\* an event stream: read whole it is not JSON
StreamReply(lines, terminated, readerr) ==
    Reply(FALSE, StatusOK, Malformed, lines, terminated, readerr)
NetworkFailure == Reply(TRUE, 0, NilBytes, <<>>, FALSE, FALSE)
NoReply == Reply(FALSE, 0, NilBytes, <<>>, FALSE, FALSE)

(***************************************************************************)
(* An adapter call                                                         *)
(***************************************************************************)
\* stage: "idle"      no call
\*        "prepare"   Complete / StreamComplete entered
\*        "inflight"  the request is with the http client
\*        "response"  client.Do returned a response
\*        "stream"    StreamComplete's loop
\*        "returned"  the call returned (err, text, raw)
\*        "panicked"  the call panicked
\* ctxDone: whether the context was already cancelled when the request was
\*          handed to the client
Call(op, req, stage, reply, rest, err, text, rawBytes) ==
    [op |-> op, req |-> req, stage |-> stage, reply |-> reply, rest |-> rest,
     err |-> err, text |-> text, raw |-> rawBytes, ctxDone |-> FALSE]

Idle == Call("", ZeroRequest, "idle", NoReply, <<>>, Nil, <<>>, NilBytes)
NewCall(op, req) == Call(op, req, "prepare", NoReply, <<>>, Nil, <<>>, NilBytes)
\* a method called on the nil *slog.Logger: the process panics
Panicked(c) == [c EXCEPT !.stage = "panicked"]

\* the loggers of a run: the one given to transport.NewClient and the one in
\* the Config given to NewProvider; FALSE is nil
Loggers(client, provider) == [client |-> client, provider |-> provider]

Returned(c, err, text, rawBytes) ==
    [Call(c.op, c.req, "returned", c.reply, <<>>, err, text, rawBytes)
        EXCEPT !.ctxDone = c.ctxDone]

\* the *http.Request handed to the client
HttpRequest(vendor, req, payload, stream) ==
    [vendor |-> vendor, url |-> Endpoint(vendor, req), payload |-> payload,
     acceptStream |-> stream]

\* Complete / StreamComplete up to client.Do: the model gate, the payload, the
\* request (http.NewRequestWithContext cannot fail on these URLs), and
\* Client.Do's log line before it hands the request to the http client
Begin ==
    /\ call.stage = "prepare"
    /\ LET stream == call.op = "StreamComplete"
           gate == IF stream THEN StreamGate(llm, call.req) ELSE Nil
           built == PreparePayload(llm, call.req, stream)
       IN  IF gate # Nil
           THEN call' = Returned(call, gate, <<>>, NilBytes) /\ sent' = sent
           ELSE IF built.err # Nil
           THEN call' = Returned(call, built.err, <<>>, NilBytes) /\ sent' = sent
           ELSE IF ~logger.client
           THEN call' = Panicked(call) /\ sent' = sent
           ELSE /\ call' = [call EXCEPT !.stage = "inflight", !.ctxDone = cancelled]
                /\ sent' = Append(sent, HttpRequest(llm, call.req, built.payload, stream))
    /\ UNCHANGED <<logger, sources, raw, loaded, cfg, pc, exitCode, llm, input, inputs, idx, out, cancelled, server>>

\* a client whose exchange goes on after the context was cancelled
DoReturn_IgnoresContext ==
    /\ call.stage = "inflight"
    /\ \E r \in server :
        IF r.neterr
        THEN call' = Returned(call, ErrorWrap(ErrAPIRequestFailed, "API request failed"),
                              <<>>, NilBytes)
        ELSE call' = [call EXCEPT !.stage = "response", !.reply = r]
    /\ UNCHANGED <<logger, sources, raw, loaded, cfg, pc, exitCode, llm, input, inputs, idx, sent, out, cancelled, server>>

\* a client that sends the request once more when the exchange fails
DoReturn_Retry ==
    /\ call.stage = "inflight"
    /\ \E r \in server :
        IF (call.ctxDone \/ r.neterr) /\ Len(sent) <= MaxInput
        THEN call' = call /\ sent' = Append(sent, sent[Len(sent)])
        ELSE IF call.ctxDone \/ r.neterr
        THEN /\ call' = Returned(call, ErrorWrap(ErrAPIRequestFailed, "API request failed"),
                                 <<>>, NilBytes)
             /\ sent' = sent
        ELSE call' = [call EXCEPT !.stage = "response", !.reply = r] /\ sent' = sent
    /\ UNCHANGED <<logger, sources, raw, loaded, cfg, pc, exitCode, llm, input, inputs, idx, out, cancelled, server>>

\* transport (c *Client) Do returns: an error when the context was cancelled
\* before the call or the exchange fails, else the response; when the context
\* is cancelled during the exchange, the error, or the response if it had
\* arrived
DoReturn ==
    /\ call.stage = "inflight"
    /\ \E r \in server, arrived \in (IF cancelled /\ ~call.ctxDone THEN {FALSE, TRUE} ELSE {TRUE}) :
        IF call.ctxDone \/ r.neterr \/ ~arrived
        THEN call' = Returned(call, ErrorWrap(ErrAPIRequestFailed, "API request failed"),
                              <<>>, NilBytes)
        ELSE call' = [call EXCEPT !.stage = "response", !.reply = r]
    /\ UNCHANGED <<logger, sources, raw, loaded, cfg, pc, exitCode, llm, input, inputs, idx, sent, out, cancelled, server>>

\* whether a read of the response body may fail: the server breaks the
\* connection, or the context was cancelled
ReadOutcomes(reply) == {reply.readerr} \cup (IF cancelled THEN {TRUE} ELSE {})

\* Complete after client.Do: ReadAll, the status check, parseResponse
CompleteRead ==
    /\ call.stage = "response"
    /\ call.op = "Complete"
    /\ \E readFails \in ReadOutcomes(call.reply) :
        LET r == CompleteResponse(llm, call.req, call.reply, readFails)
        IN  IF readFails /\ ~logger.client
            THEN call' = Panicked(call)
            ELSE call' = Returned(call, r.err, r.text, r.raw)
    /\ UNCHANGED <<logger, sources, raw, loaded, cfg, pc, exitCode, llm, input, inputs, idx, sent, out, cancelled, server>>

\* StreamComplete after client.Do: the status check (the error of io.ReadAll
\* is dropped: a failed read leaves bytes that do not decode)
StreamOpen ==
    /\ call.stage = "response"
    /\ call.op = "StreamComplete"
    /\ \E readFails \in ReadOutcomes(call.reply) :
        IF call.reply.status # StatusOK
        THEN call' = Returned(call,
                              ErrorResponse(call.reply.status,
                                            IF readFails THEN Malformed ELSE call.reply.body),
                              <<>>, NilBytes)
        ELSE call' = [call EXCEPT !.stage = "stream", !.rest = call.reply.lines]
    /\ UNCHANGED <<logger, sources, raw, loaded, cfg, pc, exitCode, llm, input, inputs, idx, sent, out, cancelled, server>>

\* whether the next read ends the stream cleanly, given the lines left
AtEOF(vendor, c) ==
    \/ c.rest = <<>>
    \/ Len(c.rest) = 1 /\ ~c.reply.terminated /\ ~YieldsUnterminated(vendor)

\* whether the Scanner holds a read error when it hands over the line: it
\* met the error looking for the newline of the last line, which it then
\* returns as a token; scanner.Err() after the loop reports it
ScannerFailed(vendor, c) ==
    /\ YieldsUnterminated(vendor)
    /\ Len(c.rest) = 1 /\ ~c.reply.terminated /\ c.reply.readerr

\* one pass of StreamComplete's loop: read a line and handle it; at the end of
\* the stream, or on a terminator, print the newline and return, unless the
\* Scanner holds an error
StreamRead ==
    /\ call.stage = "stream"
    /\ \E ctxFails \in (IF cancelled THEN {FALSE, TRUE} ELSE {FALSE}) :
        IF ctxFails \/ (AtEOF(llm, call) /\ call.reply.readerr)
        THEN /\ call' = Returned(call, ErrorNew("error reading stream"), <<>>, NilBytes)
             /\ out' = out
        ELSE IF AtEOF(llm, call)
        THEN /\ call' = Returned(call, Nil, <<>>, NilBytes)
             /\ out' = out \o <<"\n">>
        ELSE LET step == StreamLine(llm, Head(call.rest)) IN
             IF WarnsOn(llm, Head(call.rest)) /\ ~logger.provider
             THEN /\ call' = Panicked(call)
                  /\ out' = out
             ELSE IF step.stop /\ ScannerFailed(llm, call)
             THEN /\ call' = Returned(call, ErrorNew("error reading stream"), <<>>, NilBytes)
                  /\ out' = out \o step.write
             ELSE IF step.stop
             THEN /\ call' = Returned(call, Nil, <<>>, NilBytes)
                  /\ out' = out \o step.write \o <<"\n">>
             ELSE /\ call' = [call EXCEPT !.rest = Tail(call.rest)]
                  /\ out' = out \o step.write
    /\ UNCHANGED <<logger, sources, raw, loaded, cfg, pc, exitCode, llm, input, inputs, idx, sent, cancelled, server>>

(***************************************************************************)
(* cmd/sgpt main                                                           *)
(***************************************************************************)
\* strings.Split(s, sep) for a separator of one character, cur being the
\* piece collected so far
RECURSIVE SplitFrom(_, _, _)
SplitFrom(s, sep, cur) ==
    IF s = <<>> THEN <<cur>>
    ELSE IF Head(s) = sep THEN <<cur>> \o SplitFrom(Tail(s), sep, <<>>)
    ELSE SplitFrom(Tail(s), sep, Append(cur, Head(s)))

Split(s, sep) == SplitFrom(s, sep, <<>>)

\* the Config Load builds from viper's values
ConfigOf(r) ==
    [APIKey |-> r.APIKey, Provider |-> r.Provider, Model |-> r.Model,
     ModelCaps |-> ZeroCaps, Instruction |-> r.Instruction,
     Temperature |-> r.Temperature, Separator |-> r.Separator,
     ImagePath |-> r.ImagePath, AudioPath |-> r.AudioPath]

\* config.Load: [c, err], c being Load's cfg as Validate left it; flags.Parse,
\* BindPFlags and ReadInConfig fail before Validate runs
LoadConfig(r) ==
    IF r.failure # ""
    THEN [c |-> ZeroConfig, err |-> ErrorNew(r.failure)]
    ELSE Validate(ConfigOf(r))

\* one configuration key in the three places Load looks it up:
\*   flag  whether the flag was given on the command line, and its value
\*   env   the SGPT_ variable: "unset", "empty" (set to "") or "value"
\*   file  whether sgpt.yaml has the key, and its value
Flag(given, val) == [given |-> given, val |-> val]
Env(state, val) == [state |-> state, val |-> val]
File(present, val) == [present |-> present, val |-> val]
Key(flag, env, file) == [flag |-> flag, env |-> env, file |-> file]

\* v.GetString / v.GetFloat64 after BindPFlags, AutomaticEnv and ReadInConfig:
\* a flag that was given, else a variable of the environment that is not
\* empty, else the key of the file, else the default of the flag
Get(key, default) ==
    IF key.flag.given THEN key.flag.val
    ELSE IF key.env.state = "value" THEN key.env.val
    ELSE IF key.file.present THEN key.file.val
    ELSE default

\* the values Load gets from viper, the defaults being those of its flags
GetAll(src) ==
    [APIKey |-> Get(src.api_key, ""), Provider |-> Get(src.provider, "openai"),
     Model |-> Get(src.model, <<>>), Instruction |-> Get(src.instruction, <<>>),
     Temperature |-> Get(src.temperature, F(1)), Separator |-> Get(src.separator, "\n"),
     ImagePath |-> Get(src.image, <<>>), AudioPath |-> Get(src.audio, <<>>),
     failure |-> ""]

\* config.Load from the flags, the environment and the file, and main's test
\* of its error
LoadSources ==
    /\ pc = "resolve"
    /\ LET v == LoadConfig(GetAll(sources)) IN
        /\ raw' = GetAll(sources)
        /\ loaded' = v
        /\ IF v.err # Nil
           THEN cfg' = ZeroConfig /\ pc' = "exit" /\ exitCode' = 1
           ELSE cfg' = v.c /\ pc' = "providers" /\ exitCode' = exitCode
    /\ UNCHANGED <<logger, sources, llm, input, inputs, idx, call, sent, out, cancelled, server>>

\* the keys of main's providers map
Registered == {"openai"}

\* a Load whose error main does not act on
Load_ErrorIgnored ==
    /\ pc = "load"
    /\ LET v == LoadConfig(raw) IN
        /\ loaded' = v
        /\ cfg' = v.c /\ pc' = "providers" /\ exitCode' = exitCode
    /\ UNCHANGED <<logger, sources, raw, llm, input, inputs, idx, call, sent, out, cancelled, server>>

\* main: "Load configuration"
Load ==
    /\ pc = "load"
    /\ LET v == LoadConfig(raw) IN
        /\ loaded' = v
        /\ IF v.err # Nil
           THEN cfg' = ZeroConfig /\ pc' = "exit" /\ exitCode' = 1
           ELSE cfg' = v.c /\ pc' = "providers" /\ exitCode' = exitCode
    /\ UNCHANGED <<logger, sources, raw, llm, input, inputs, idx, call, sent, out, cancelled, server>>

\* main: "Create and register providers", "Get the requested provider"
SelectProvider ==
    /\ pc = "providers"
    /\ IF cfg.Provider \in Registered
       THEN llm' = cfg.Provider /\ pc' = "input" /\ exitCode' = exitCode
       ELSE llm' = llm /\ pc' = "exit" /\ exitCode' = 1
    /\ UNCHANGED <<logger, sources, raw, loaded, cfg, input, inputs, idx, call, sent, out, cancelled, server>>

\* the characters of stdin texts
InputAlphabet == {"a", "b", " ", "\n"}
Inputs == SeqsUpTo(InputAlphabet, MaxInput)
\* what a user types on a terminal before Ctrl+D
Typed == SeqsUpTo(InputAlphabet, MaxTyped)
\* the non-flag arguments of the command line (cfg.RemainingArgs, which Load
\* takes from flags.Args() and only main's input step reads)
ArgLists == {<<>>, << <<"a">>, <<"b">> >>}

\* the line main prints before it reads from a terminal
Banner == <<"Reading input from stdin. Press Ctrl+D when finished.", "\n">>

\* bufio.ScanLines' dropCR
DropCR(line) ==
    IF line # <<>> /\ line[Len(line)] = "\r" THEN SubSeq(line, 1, Len(line) - 1) ELSE line

\* the tokens of a bufio.Scanner over the text: its lines without their line
\* ends, a last line that lacks its newline included
ScanLines(text) ==
    LET pieces == Split(text, "\n")
        whole == IF pieces[Len(pieces)] = <<>>
                 THEN SubSeq(pieces, 1, Len(pieces) - 1) ELSE pieces
    IN  [k \in 1..Len(whole) |-> DropCR(whole[k])]

\* "Read all input": input += scanner.Text() + "\n" for each line
RECURSIVE ScanInput(_)
ScanInput(lines) ==
    IF lines = <<>> THEN <<>>
    ELSE Head(lines) \o <<"\n">> \o ScanInput(Tail(lines))

\* strings.Join(args, " ")
RECURSIVE Join(_)
Join(args) ==
    IF args = <<>> THEN <<>>
    ELSE IF Len(args) = 1 THEN Head(args)
    ELSE Head(args) \o <<" ">> \o Join(Tail(args))

\* main: "Create a scanner to read from stdin" to the line it prints when
\* stdin is a terminal and the command line has no arguments; the FileInfo of
\* a Stat that failed is nil, and stat.Mode() on it panics (exit status 2)
CheckStdin ==
    /\ pc = "input"
    /\ \E stat \in {"fails", "terminal", "other"}, bare \in BOOLEAN :
        IF stat = "fails"
        THEN pc' = "panicked" /\ exitCode' = 2 /\ out' = out
        ELSE /\ pc' = "scan"
             /\ exitCode' = exitCode
             /\ out' = IF stat = "terminal" /\ bare THEN out \o Banner ELSE out
    /\ UNCHANGED <<logger, sources, raw, loaded, cfg, llm, input, inputs, idx, call, sent, cancelled, server>>

\* the texts stdin can hold; after the line printed for a command line
\* without arguments it is what the user types
StdinTexts == IF out = Banner THEN Typed ELSE Inputs

\* main: one pass of "Read all input": scanner.Scan() waits for stdin and
\* returns its next line, which main appends to input with a line end
ScanLine ==
    /\ pc = "scan"
    /\ \E stdin \in StdinTexts :
        LET lines == ScanLines(stdin) IN
        \E n \in 0..(Len(lines) - 1) :
            /\ input = ScanInput(SubSeq(lines, 1, n))
            /\ input' = input \o lines[n + 1] \o <<"\n">>
    /\ UNCHANGED <<logger, sources, raw, loaded, cfg, pc, exitCode, llm, inputs, idx, call, sent, out, cancelled, server>>

\* the input main goes on with: the remaining arguments joined, if there are
\* any (none after the line printed for a command line without arguments),
\* else the lines read from stdin
InputTexts ==
    {input} \cup (IF out = Banner THEN {} ELSE {Join(args) : args \in ArgLists \ {<<>>}})

\* main: scanner.Scan() returns false, at the end of stdin or on a read
\* error, to "Process input in chunks based on separator"
ReadInput ==
    /\ pc = "scan"
    /\ \/ \* scanner.Err() != nil
          /\ input' = input /\ inputs' = inputs /\ idx' = idx
          /\ pc' = "exit" /\ exitCode' = 1
       \/ \E text \in InputTexts :
          /\ input' = text
          /\ IF text = <<>> /\ cfg.ImagePath = <<>> /\ cfg.AudioPath = <<>>
             THEN inputs' = inputs /\ idx' = idx /\ pc' = "exit" /\ exitCode' = 1
             ELSE /\ inputs' = Split(text, cfg.Separator)
                  /\ idx' = 1
                  /\ pc' = "loop"
                  /\ exitCode' = exitCode
    /\ UNCHANGED <<logger, sources, raw, loaded, cfg, llm, call, sent, out, cancelled, server>>

\* the Request main builds for a chunk
ChunkRequest(c, chunk) ==
    Request(c.Model, c.Instruction, chunk, c.Temperature, c.ImagePath, c.AudioPath,
            c.ModelCaps.Streaming)

\* a chunk loop that takes the chunks from the last to the first
LoopStep_FromLast ==
    /\ pc = "loop"
    /\ IF idx > Len(inputs)
       THEN pc' = "done" /\ exitCode' = 0 /\ idx' = idx /\ call' = call
       ELSE LET chunk == TrimSpace(inputs[Len(inputs) + 1 - idx])
                req == ChunkRequest(cfg, chunk)
            IN  IF chunk = <<>> /\ cfg.ImagePath = <<>> /\ cfg.AudioPath = <<>>
                THEN pc' = pc /\ exitCode' = exitCode /\ idx' = idx + 1 /\ call' = call
                ELSE /\ call' = NewCall(IF req.Stream THEN "StreamComplete" ELSE "Complete", req)
                     /\ pc' = "call"
                     /\ exitCode' = exitCode
                     /\ idx' = idx
    /\ UNCHANGED <<logger, sources, raw, loaded, cfg, llm, input, inputs, sent, out, cancelled, server>>

\* a chunk loop that skips every chunk that is empty once trimmed
LoopStep_SkipsEveryEmpty ==
    /\ pc = "loop"
    /\ IF idx > Len(inputs)
       THEN pc' = "done" /\ exitCode' = 0 /\ idx' = idx /\ call' = call
       ELSE LET chunk == TrimSpace(inputs[idx])
                req == ChunkRequest(cfg, chunk)
            IN  IF chunk = <<>>
                THEN pc' = pc /\ exitCode' = exitCode /\ idx' = idx + 1 /\ call' = call
                ELSE /\ call' = NewCall(IF req.Stream THEN "StreamComplete" ELSE "Complete", req)
                     /\ pc' = "call"
                     /\ exitCode' = exitCode
                     /\ idx' = idx
    /\ UNCHANGED <<logger, sources, raw, loaded, cfg, llm, input, inputs, sent, out, cancelled, server>>

\* main: the head of the chunk loop, up to the adapter call
LoopStep ==
    /\ pc = "loop"
    /\ IF idx > Len(inputs)
       THEN pc' = "done" /\ exitCode' = 0 /\ idx' = idx /\ call' = call
       ELSE LET chunk == TrimSpace(inputs[idx])
                req == ChunkRequest(cfg, chunk)
            IN  IF chunk = <<>> /\ cfg.ImagePath = <<>> /\ cfg.AudioPath = <<>>
                THEN pc' = pc /\ exitCode' = exitCode /\ idx' = idx + 1 /\ call' = call
                ELSE /\ call' = NewCall(IF req.Stream THEN "StreamComplete" ELSE "Complete", req)
                     /\ pc' = "call"
                     /\ exitCode' = exitCode
                     /\ idx' = idx
    /\ UNCHANGED <<logger, sources, raw, loaded, cfg, llm, input, inputs, sent, out, cancelled, server>>

\* a loop that goes on to the next chunk after a failed call
ChunkReturn_ContinuesOnError ==
    /\ pc = "call"
    /\ call.stage = "returned"
    /\ pc' = "loop"
    /\ exitCode' = exitCode
    /\ idx' = idx + 1
    /\ out' = IF call.op = "Complete" /\ call.err = Nil THEN out \o call.text \o <<"\n">> ELSE out
    /\ call' = call
    /\ UNCHANGED <<logger, sources, raw, loaded, cfg, llm, input, inputs, sent, cancelled, server>>

\* main: the adapter call returned
ChunkReturn ==
    /\ pc = "call"
    /\ call.stage = "returned"
    /\ IF call.err # Nil
       THEN pc' = "exit" /\ exitCode' = 1 /\ out' = out /\ idx' = idx
       ELSE /\ pc' = "loop"
            /\ exitCode' = exitCode
            /\ idx' = idx + 1
            /\ out' = IF call.op = "Complete" THEN out \o call.text \o <<"\n">> ELSE out
    /\ call' = call
    /\ UNCHANGED <<logger, sources, raw, loaded, cfg, llm, input, inputs, sent, cancelled, server>>

\* main's goroutine: a termination signal cancels the context
Signal ==
    /\ pc \notin {"done", "exit", "panicked"}
    /\ ~cancelled
    /\ cancelled' = TRUE
    /\ UNCHANGED <<logger, sources, raw, loaded, cfg, pc, exitCode, llm, input, inputs, idx, call, sent, out, server>>

(***************************************************************************)
(* The values runs start from                                              *)
(***************************************************************************)
UnknownModels == {<<"gpt-", "5">>, <<"invalid-model">>}
Models == DOMAIN modelCapabilities \cup UnknownModels
Temperatures == {F(h) : h \in (0 - TempBelow)..(TempOne + TempAbove)} \cup {NaN}
ImagePaths == {<<>>, <<"http", "s://", "example.com/a.jpg">>, <<"a.png">>, <<"missing.png">>}
AudioPaths == {<<>>, <<"a.wav">>, <<"missing.wav">>}
Instructions == {<<>>, <<"i">>}

RawConfig(key, provider, model, instruction, temperature, image, audio, failure) ==
    [APIKey |-> key, Provider |-> provider, Model |-> model,
     Instruction |-> instruction, Temperature |-> temperature, Separator |-> "\n",
     ImagePath |-> image, AudioPath |-> audio, failure |-> failure]

RawConfigs ==
    {RawConfig(key, provider, model, <<"i">>, temperature, image, audio, "") :
        key \in {"", "sk-test"},
        provider \in {"openai", "anthropic", "google", "azure"},
        model \in Models \cup {<<>>},
        temperature \in Temperatures,
        image \in ImagePaths,
        audio \in {<<>>, <<"a.wav">>}}
    \cup
    {RawConfig("sk-test", "openai", <<>>, <<"i">>, F(1), <<>>, <<>>, failure) :
        failure \in {"flags.Parse", "error reading config file"}}

Texts == SeqsUpTo({"a", " "}, MaxText)

ChoicesDoc(choices) == Doc("", choices, "", <<>>, <<>>, <<>>)
ErrorDoc(msg) == Doc(msg, <<>>, "", <<>>, <<>>, <<>>)
ContentDoc(blocks) == Doc("", <<>>, "", <<>>, blocks, <<>>)
CandidatesDoc(candidates) == Doc("", <<>>, "", <<>>, <<>>, candidates)
Block(type, text) == [type |-> type, text |-> text]

\* a document every adapter finds an answer in
GoodDoc ==
    Doc("", <<Choice(<<"a">>, <<"a">>, <<>>, "")>>, "", <<>>, <<Block("text", <<"a">>)>>,
        <<<<(<<"a">>)>>>>)

\* the answers of the server in a run of the command
MainReplies ==
    {NetworkFailure,
     JsonReply(500, JsonBody(ErrorDoc("boom"))),
     JsonReply(StatusOK, JsonBody(GoodDoc)),
     JsonReply(StatusOK, JsonBody(ChoicesDoc(<<>>))),
     StreamReply(<<Data(ChoicesDoc(<<Choice(<<>>, <<>>, <<"a">>, "")>>)), DataDone>>, TRUE, FALSE)}

Unset == Key(Flag(FALSE, ""), Env("unset", ""), File(FALSE, ""))

\* nothing given anywhere
NoSources ==
    [api_key |-> Unset, provider |-> Unset, model |-> Unset, instruction |-> Unset,
     temperature |-> Unset, separator |-> Unset, image |-> Unset, audio |-> Unset]

Init ==
    /\ logger = Loggers(TRUE, TRUE)
    /\ sources = NoSources
    /\ raw \in RawConfigs
    /\ loaded = [c |-> ZeroConfig, err |-> Nil]
    /\ cfg = ZeroConfig
    /\ pc = "load"
    /\ exitCode = -1
    /\ llm = ""
    /\ input = <<>>
    /\ inputs = <<>>
    /\ idx = 0
    /\ call = Idle
    /\ sent = <<>>
    /\ out = <<>>
    /\ cancelled = FALSE
    /\ server = MainReplies

Next ==
    \/ Load
    \/ SelectProvider
    \/ CheckStdin
    \/ ScanLine
    \/ ReadInput
    \/ LoopStep
    \/ Begin
    \/ DoReturn
    \/ CompleteRead
    \/ StreamOpen
    \/ StreamRead
    \/ ChunkReturn
    \/ Signal

Spec == Init /\ [][Next]_vars

(***************************************************************************)
(* The adapters called directly, as a library: one call of Complete or     *)
(* StreamComplete on one adapter, answered by one server reply             *)
(***************************************************************************)
Vendors == {"openai", "anthropic", "google"}
Ops == {"Complete", "StreamComplete"}

PlainRequest(model, stream) == Request(model, <<"i">>, <<"a">>, F(1), <<>>, <<>>, stream)

\* every combination of the fields payload construction reads
Requests(stream) ==
    {Request(model, instruction, inp, F(1), image, audio, stream) :
        model \in Models, instruction \in Instructions, inp \in {<<>>, <<"a">>},
        image \in ImagePaths \cup {<<"http", "://", "example.com/a.jpg">>},
        audio \in AudioPaths}

BasicReplies ==
    {NetworkFailure,
     JsonReply(500, JsonBody(ErrorDoc("boom"))),
     JsonReply(404, Malformed),
     JsonReply(StatusOK, JsonBody(GoodDoc))}

\* response documents of each vendor's shape
OpenAIDocs ==
    {ChoicesDoc(<<>>)}
    \cup {ChoicesDoc(<<Choice(t, u, <<>>, "")>> \o more) :
            t \in Texts, u \in {<<>>, <<"b">>}, more \in {<<>>, <<Choice(<<"b">>, <<"b">>, <<>>, "")>>}}
    \cup {ChoicesDoc(<<Choice(<<"b">>, t, <<>>, "")>>) : t \in Texts}
AnthropicDocs ==
    {ContentDoc(<<>>), ContentDoc(<<Block("tool_use", <<"a">>)>>),
     ContentDoc(<<Block("text", <<"a">>), Block("tool_use", <<"b">>), Block("text", <<"b">>)>>)}
    \cup {ContentDoc(<<Block("text", t)>>) : t \in Texts}
GeminiDocs ==
    {CandidatesDoc(<<>>), CandidatesDoc(<< <<>> >>),
     CandidatesDoc(<< <<(<<"a">>), (<<"b">>)>>, <<(<<"b">>)>> >>)}
    \cup {CandidatesDoc(<< <<t>> >>) : t \in Texts}

Bodies ==
    {Malformed, JsonBody(ErrorDoc("boom")), JsonBody(ErrorDoc(""))}
    \cup {JsonBody(d) : d \in OpenAIDocs \cup AnthropicDocs \cup GeminiDocs}

JsonReplies ==
    {JsonReply(status, body) : status \in {StatusOK, 201, 404, 500}, body \in Bodies}
    \cup {Reply(FALSE, status, JsonBody(GoodDoc), <<Other>>, FALSE, TRUE) :
            status \in {StatusOK, 500}}

\* event-stream lines of each vendor's shape
Delta(content, finish) == ChoicesDoc(<<Choice(<<>>, <<>>, content, finish)>>)
OpenAILines ==
    {Blank, Comment, Event(StreamEvent), DataDone, DataBad, Data(ChoicesDoc(<<>>)),
     Data(Delta(<<"a">>, "")), Data(Delta(<<"b">>, "")), Data(Delta(<<>>, "")),
     Data(Delta(<<"a">>, "stop")), Data(Delta(<<>>, "stop"))}
BlockDelta(type, text) == Doc("", <<>>, type, text, <<>>, <<>>)
AnthropicLines ==
    {Blank, Event(StreamEvent), Event("ping"), DataDone, DataBad,
     Data(BlockDelta(StreamEvent, <<"a">>)), Data(BlockDelta(StreamEvent, <<"b">>)),
     Data(BlockDelta(StreamEvent, <<>>)), Data(BlockDelta("message_start", <<"a">>))}
GeminiLines ==
    {Blank, DataDone, DataBad, Data(CandidatesDoc(<<>>)), Data(CandidatesDoc(<< <<>> >>)),
     Data(CandidatesDoc(<< <<(<<"a">>)>> >>)), Data(CandidatesDoc(<< <<(<<"b">>)>> >>)),
     Data(CandidatesDoc(<< <<(<<>>)>> >>)),
     Data(CandidatesDoc(<< <<(<<"a">>), (<<"b">>)>> >>))}

LinesOf(vendor) ==
    CASE vendor = "openai" -> OpenAILines
      [] vendor = "anthropic" -> AnthropicLines
      [] vendor = "google" -> GeminiLines

StreamReplies(vendor) ==
    {StreamReply(lines, terminated, readerr) :
        lines \in SeqsUpTo(LinesOf(vendor), MaxLines),
        terminated \in BOOLEAN, readerr \in BOOLEAN}

\* a direct call: adapter v built with the loggers l, operation op, request
\* req, answered by reply
DirectWith(l, v, op, req, reply) ==
    /\ logger = l
    /\ sources = NoSources
    /\ raw = RawConfig("sk-test", v, req.Model, req.Instruction, req.Temperature,
                       req.ImagePath, req.AudioPath, "")
    /\ loaded = [c |-> ZeroConfig, err |-> Nil]
    /\ cfg = ZeroConfig
    /\ pc = "direct"
    /\ exitCode = -1
    /\ llm = v
    /\ input = <<>>
    /\ inputs = <<>>
    /\ idx = 0
    /\ call = NewCall(op, req)
    /\ sent = <<>>
    /\ out = <<>>
    /\ cancelled = FALSE
    /\ server = {reply}

\* a direct call on an adapter and a client that hold a logger
Direct(v, op, req, reply) == DirectWith(Loggers(TRUE, TRUE), v, op, req, reply)

\* every request, a few answers
InitRequests ==
    \E v \in Vendors, op \in Ops, reply \in BasicReplies :
        \E req \in Requests(op = "StreamComplete") : Direct(v, op, req, reply)

\* every model, every response body
InitBodies ==
    \E v \in Vendors, op \in Ops, model \in Models, reply \in JsonReplies :
        Direct(v, op, PlainRequest(model, op = "StreamComplete"), reply)

\* every event stream
InitStreams ==
    \E v \in Vendors :
        \E reply \in StreamReplies(v) :
            Direct(v, "StreamComplete", PlainRequest(DefaultModel(v), TRUE), reply)

InitAdapter == InitRequests \/ InitBodies \/ InitStreams

NextAdapter ==
    \/ Begin
    \/ DoReturn
    \/ CompleteRead
    \/ StreamOpen
    \/ StreamRead

SpecAdapter == InitAdapter /\ [][NextAdapter]_vars

(***************************************************************************)
(* The adapters called directly, the client and the adapter built with or  *)
(* without a logger                                                        *)
(***************************************************************************)
\* a first fragment in the vendor's stream format
FirstDelta(v) ==
    CASE v = "openai" -> Data(Delta(<<"a">>, ""))
      [] v = "anthropic" -> Data(BlockDelta(StreamEvent, <<"a">>))
      [] v = "google" -> Data(CandidatesDoc(<< <<(<<"a">>)>> >>))

LoggerReplies(v) ==
    BasicReplies
    \cup {Reply(FALSE, StatusOK, JsonBody(GoodDoc), <<Other>>, FALSE, TRUE),
          JsonReply(StatusOK, Malformed),
          StreamReply(<<FirstDelta(v), DataDone>>, TRUE, FALSE),
          StreamReply(<<FirstDelta(v), DataBad, FirstDelta(v)>>, TRUE, FALSE),
          StreamReply(<<DataBad>>, FALSE, TRUE)}

InitLogger ==
    \E client \in BOOLEAN, provider \in BOOLEAN, v \in Vendors, op \in Ops :
        \E reply \in LoggerReplies(v) :
            DirectWith(Loggers(client, provider), v, op,
                       PlainRequest(DefaultModel(v), op = "StreamComplete"), reply)

SpecLogger == InitLogger /\ [][NextAdapter]_vars

(***************************************************************************)
(* config.Load on its own: every way of giving three of the keys           *)
(***************************************************************************)
\* a key given as f by flag, e by the environment and y by the file, each of
\* them or not, the variable of the environment possibly empty
KeySources(f, e, y, empty) ==
    {Key(flag, env, file) :
        flag \in {Flag(FALSE, empty), Flag(TRUE, f)},
        env \in {Env("unset", empty), Env("empty", empty), Env("value", e)},
        file \in {File(FALSE, empty), File(TRUE, y)}}

SourceSets ==
    {[NoSources EXCEPT !.api_key = Key(Flag(FALSE, ""), Env("value", "sk-test"), File(FALSE, "")),
                       !.provider = provider, !.model = model, !.instruction = instruction] :
        provider \in KeySources("openai", "anthropic", "google", ""),
        model \in KeySources(<<"gpt-", "4">>, <<"gpt-", "3.5-turbo">>, <<"gpt-", "4o">>, <<>>),
        instruction \in KeySources(<<"f">>, <<"e">>, <<"y">>, <<>>)}

InitLoad ==
    /\ logger = Loggers(TRUE, TRUE)
    /\ sources \in SourceSets
    /\ raw = RawConfig("", "", <<>>, <<>>, F(0), <<>>, <<>>, "")
    /\ loaded = [c |-> ZeroConfig, err |-> Nil]
    /\ cfg = ZeroConfig
    /\ pc = "resolve"
    /\ exitCode = -1
    /\ llm = ""
    /\ input = <<>>
    /\ inputs = <<>>
    /\ idx = 0
    /\ call = Idle
    /\ sent = <<>>
    /\ out = <<>>
    /\ cancelled = FALSE
    /\ server = MainReplies

NextLoad == LoadSources

SpecLoad == InitLoad /\ [][NextLoad]_vars

(***************************************************************************)
(* Properties                                                              *)
(***************************************************************************)
\* Load has run on configuration values that parsed
Validated == pc \notin {"load", "direct"} /\ raw.failure = ""

\* the model Validate looks up: the one given, else the provider's default
LookedUp(r) == IF r.Model = <<>> THEN DefaultModel(r.Provider) ELSE r.Model

\* C1: no HTTP request is issued, and no adapter call made, unless Load returned
\* without error; when Load fails the run ends with exit status 1 and has sent
\* nothing.
C1_NoRequestUnlessValidated ==
    /\ (sent # <<>> \/ call.stage # "idle") =>
            (pc # "load" /\ loaded.err = Nil /\ LoadConfig(raw).err = Nil)
    /\ (pc # "load" /\ loaded.err # Nil) => (pc = "exit" /\ exitCode = 1 /\ sent = <<>>)

\* a run that failed on the temperature has exited with status 1, nothing sent
C1_Witness ==
    /\ pc = "exit" /\ exitCode = 1 /\ sent = <<>>
    /\ loaded.err.msg = "temperature must be between 0 and 1"

\* C2: with an API key, a recognized provider and a non-empty model that is no
\* key of the capability table, Validate returns an error and leaves Model as
\* supplied.
C2_UnknownModelRejected ==
    (/\ Validated
     /\ raw.APIKey # ""
     /\ raw.Provider \in {"openai", "anthropic", "google"}
     /\ raw.Model # <<>>
     /\ raw.Model \notin DOMAIN modelCapabilities)
    => (loaded.err # Nil /\ loaded.c.Model = raw.Model)

C2_Witness ==
    /\ Validated /\ raw.APIKey # "" /\ raw.Provider = "openai"
    /\ raw.Model = <<"gpt-", "5">>
    /\ raw.ImagePath = <<>> /\ raw.AudioPath = <<>> /\ raw.Temperature = F(1)
    /\ loaded.err.msg = "unsupported model"

\* C3: with an image or audio path and a model whose capability entry is not
\* multimodal, Validate returns an error, whatever the other fields are.
C3_MultimodalRejected ==
    (/\ Validated
     /\ (raw.ImagePath # <<>> \/ raw.AudioPath # <<>>)
     /\ raw.Model \in DOMAIN modelCapabilities
     /\ ~modelCapabilities[raw.Model].Multimodal)
    => loaded.err # Nil

\* an audio path alone, on a text-only model, everything else valid
C3_Witness ==
    /\ Validated /\ raw.APIKey # "" /\ raw.Provider = "openai"
    /\ raw.Model = <<"gpt-", "4">> /\ raw.ImagePath = <<>> /\ raw.AudioPath # <<>>
    /\ raw.Temperature = F(1)
    /\ loaded.err.msg = "model does not support multimodal inputs"

\* the fields other than the temperature pass Validate
OthersValid(r) ==
    /\ r.APIKey # ""
    /\ r.Provider \in {"openai", "anthropic", "google"}
    /\ LookedUp(r) \in DOMAIN modelCapabilities
    /\ (r.ImagePath # <<>> \/ r.AudioPath # <<>>) => modelCapabilities[LookedUp(r)].Multimodal

\* C4: the other fields valid, Validate fails for every temperature below 0 or
\* above 1 and succeeds for every temperature from 0 to 1, both included.
C4_TemperatureRange ==
    (Validated /\ OthersValid(raw)) =>
        LET t == raw.Temperature IN
        /\ (~t.nan /\ (t.h < 0 \/ t.h > TempOne)) => loaded.err # Nil
        /\ (~t.nan /\ 0 <= t.h /\ t.h <= TempOne) => loaded.err = Nil

\* the temperature 1.0 was accepted
C4_Witness ==
    Validated /\ OthersValid(raw) /\ raw.Temperature = F(TempOne) /\ loaded.err = Nil

\* the checks of Validate, each on its own
FailsKey(r) == r.APIKey = ""
FailsProvider(r) == r.Provider \notin {"openai", "anthropic", "google"}
FailsModel(r) == LookedUp(r) \notin DOMAIN modelCapabilities
FailsMultimodal(r) ==
    /\ r.ImagePath # <<>> \/ r.AudioPath # <<>>
    /\ ~modelCapabilities[LookedUp(r)].Multimodal
FailsTemperature(r) == ~r.Temperature.nan /\ (r.Temperature.h < 0 \/ r.Temperature.h > TempOne)

\* C5: the error Validate returns is that of the first failing check in the
\* order key, provider, (default model), model, multimodal, temperature, and
\* nothing of a later check has happened: the struct is untouched when the key
\* or the provider fails, and ModelCaps is unset when the model fails.
C5_FirstFailureWins ==
    Validated =>
        IF FailsKey(raw)
        THEN loaded.err.msg = "API key is required" /\ loaded.c = ConfigOf(raw)
        ELSE IF FailsProvider(raw)
        THEN loaded.err.msg = "unsupported provider" /\ loaded.c = ConfigOf(raw)
        ELSE IF FailsModel(raw)
        THEN loaded.err.msg = "unsupported model" /\ loaded.c.ModelCaps = ZeroCaps
        ELSE IF FailsMultimodal(raw)
        THEN loaded.err.msg = "model does not support multimodal inputs"
        ELSE IF FailsTemperature(raw)
        THEN loaded.err.msg = "temperature must be between 0 and 1"
        ELSE loaded.err = Nil

\* a configuration failing four checks is reported for the first
C5_Witness ==
    /\ Validated
    /\ FailsKey(raw) /\ FailsProvider(raw) /\ FailsModel(raw) /\ FailsTemperature(raw)
    /\ loaded.err.msg = "API key is required"

\* the model identifiers of each vendor
VendorRoster(v) ==
    CASE v = "openai" -> {<<"gpt-", "4o">>} \cup OpenAIChatModels \cup OpenAILegacyModels
      [] v = "anthropic" -> {<<"claude-", "v1">>, <<"claude-", "v1.2">>}
      [] v = "google" -> {<<"gemini-", "medium">>, <<"gemini-", "large">>}

\* the call got past payload construction or returned
PastPayload == call.stage \in {"inflight", "response", "stream", "returned"}

\* C6: in each adapter, Complete and StreamComplete refuse with
\* UnsupportedModel every request whose model is outside the vendor's
\* identifiers, and send nothing for it.
C6_UnknownModelRefused ==
    (PastPayload /\ call.req.Model \notin VendorRoster(llm)) =>
        /\ call.stage = "returned"
        /\ call.err.is = ErrUnsupportedModel
        /\ sent = <<>>

\* client.Do returned an error for the request sent
TransportFailed == call.stage = "returned" /\ sent # <<>> /\ call.reply = NoReply
\* the server answered with a status outside 200..299
Non2xx == call.reply # NoReply /\ (call.reply.status < 200 \/ call.reply.status > 299)

\* C7: a transport error or a non-2xx answer gives an error that is
\* APIRequestFailed, a payload refused with no file to load one that is
\* UnsupportedModel, and every
\* error of Complete and StreamComplete returned after the request was sent
\* is one of UnsupportedModel, APIRequestFailed, NoResponseGenerated.
C7_ErrorCategories ==
    (call.stage = "returned" /\ call.err # Nil) =>
        /\ (TransportFailed \/ Non2xx) => call.err.is = ErrAPIRequestFailed
        /\ (sent = <<>> /\ call.req.ImagePath = <<>> /\ call.req.AudioPath = <<>>) =>
                call.err.is = ErrUnsupportedModel
        /\ sent # <<>> =>
                call.err.is \in {ErrUnsupportedModel, ErrAPIRequestFailed,
                                 ErrNoResponseGenerated}

\* a 200 answer whose body decodes and was read to the end
Answered200 ==
    /\ call.stage = "returned"
    /\ call.reply # NoReply
    /\ call.reply.status = 200
    /\ ~call.reply.readerr
    /\ call.reply.body.ok

\* the decoded body holds no completion item for the vendor
NoItems(v, doc) ==
    CASE v = "openai" -> doc.choices = <<>>
      [] v = "anthropic" -> doc.content = <<>>
      [] v = "google" -> doc.candidates = <<>> \/ doc.candidates[1] = <<>>

\* C8: on a 200 answer whose body parses and holds no completion item,
\* Complete fails with NoResponseGenerated and returns no text.
C8_NoResponseGenerated ==
    (call.op = "Complete" /\ Answered200 /\ NoItems(llm, call.reply.body.doc)) =>
        /\ call.err.is = ErrNoResponseGenerated
        /\ call.text = <<>>
        /\ call.raw = NilBytes

\* gemini: a candidate without parts
C8_Witness ==
    /\ call.op = "Complete" /\ Answered200 /\ llm = "google"
    /\ call.reply.body.doc.candidates = << <<>> >>
    /\ call.err.is = ErrNoResponseGenerated

\* t is s without its leading and trailing whitespace
IsTrimOf(t, s) ==
    /\ t # <<>> => ~(t[1] \in {" ", "\n", "\r", "\t"}) /\ ~(t[Len(t)] \in {" ", "\n", "\r", "\t"})
    /\ \E i \in 0..Len(s) :
        /\ i + Len(t) <= Len(s)
        /\ SubSeq(s, i + 1, i + Len(t)) = t
        /\ \A k \in 1..Len(s) :
            (k <= i \/ k > i + Len(t)) => s[k] \in {" ", "\n", "\r", "\t"}

\* C9: for an OpenAI model that payload construction accepts and a 200 body
\* with at least one choice, Complete succeeds, its text is the first choice's
\* message.content (chat models) or text (legacy models) without surrounding
\* whitespace, and its raw is the body received.
C9_FirstChoiceTrimmed ==
    (/\ llm = "openai" /\ call.op = "Complete" /\ Answered200
     /\ call.req.Model \in VendorRoster("openai")
     /\ Len(call.reply.body.doc.choices) >= 1)
    => LET first == call.reply.body.doc.choices[1]
           chat == call.req.Model \in OpenAIChatModels \cup {<<"gpt-", "4o">>}
       IN  /\ call.err = Nil
           /\ IsTrimOf(call.text, IF chat THEN first.content ELSE first.text)
           /\ call.raw = call.reply.body

\* a legacy model, the text "a " of the first choice returned as "a"
C9_Witness ==
    /\ llm = "openai" /\ call.op = "Complete" /\ Answered200
    /\ call.req.Model = <<"text-", "davinci-003">>
    /\ Len(call.reply.body.doc.choices) = 1
    /\ call.reply.body.doc.choices[1].content = <<"b">>
    /\ call.reply.body.doc.choices[1].text = <<"a", " ">>
    /\ call.text = <<"a">> /\ call.err = Nil

\* a data event with a delta and no finish_reason
IsDeltaEvent(line) ==
    /\ line.kind = "data" /\ line.tag = "json"
    /\ Len(line.doc.choices) >= 1
    /\ line.doc.choices[1].finish = ""

\* the delta contents of the events, concatenated in order
RECURSIVE ConcatDeltas(_)
ConcatDeltas(lines) ==
    IF lines = <<>> THEN <<>>
    ELSE Head(lines).doc.choices[1].delta \o ConcatDeltas(Tail(lines))

\* the server sends delta events, then data: [DONE], and the connection does
\* not break before [DONE] is read
DeltasThenDone(reply) ==
    /\ reply.status = 200
    /\ reply.lines # <<>>
    /\ reply.lines[Len(reply.lines)] = DataDone
    /\ \A k \in 1..(Len(reply.lines) - 1) : IsDeltaEvent(reply.lines[k])
    /\ reply.terminated \/ ~reply.readerr

\* C10: for a stream of OpenAI delta events followed by data: [DONE],
\* StreamComplete writes the delta contents in arrival order, then one
\* newline, and returns nil; while it is in the loop it has written the
\* contents of the events read so far and nothing else.
C10_StreamWritesDeltas ==
    (/\ llm = "openai" /\ call.op = "StreamComplete"
     /\ call.reply # NoReply /\ DeltasThenDone(call.reply))
    => LET lines == call.reply.lines
           deltas == SubSeq(lines, 1, Len(lines) - 1)
           read == SubSeq(lines, 1, Len(lines) - Len(call.rest))
       IN  /\ call.stage = "stream" =>
                (call.rest # <<>> /\ out = ConcatDeltas(SubSeq(read, 1, Len(read))))
           /\ call.stage = "returned" =>
                (call.err = Nil /\ out = ConcatDeltas(deltas) \o <<"\n">>)

\* "a", then "b", then [DONE]: "ab" and a newline written, nil returned
C10_Witness ==
    /\ llm = "openai" /\ call.op = "StreamComplete" /\ call.stage = "returned"
    /\ call.reply.lines = <<Data(Delta(<<"a">>, "")), Data(Delta(<<"b">>, "")), DataDone>>
    /\ out = <<"a", "b", "\n">>
    /\ call.err = Nil

\* what StreamComplete prints for lines that all reach its loop
RECURSIVE Written(_, _)
Written(v, lines) ==
    IF lines = <<>> THEN <<"\n">>
    ELSE LET step == StreamLine(v, Head(lines)) IN
         IF step.stop THEN step.write \o <<"\n">>
         ELSE step.write \o Written(v, Tail(lines))

\* the lines without the data events whose payload does not decode
RECURSIVE WithoutBad(_)
WithoutBad(lines) ==
    IF lines = <<>> THEN <<>>
    ELSE (IF Head(lines) = DataBad THEN <<>> ELSE <<Head(lines)>>) \o WithoutBad(Tail(lines))

\* a 200 event stream whose lines all end with a newline, read to its end
StreamedWhole ==
    /\ call.op = "StreamComplete" /\ call.stage = "returned"
    /\ call.reply # NoReply /\ call.reply.status = StatusOK
    /\ call.reply.terminated /\ ~call.reply.readerr

\* C11: in each adapter's StreamComplete a data event whose payload is not
\* valid JSON writes nothing, does not end the stream and gives no error: the
\* call succeeds and prints what it prints for the same stream without those
\* events.
C11_MalformedEventSkipped ==
    StreamedWhole =>
        /\ call.err = Nil
        /\ out = Written(llm, WithoutBad(call.reply.lines))

\* a malformed event between two deltas, both printed
C11_Witness ==
    /\ StreamedWhole /\ llm = "anthropic"
    /\ call.reply.lines = <<Data(BlockDelta(StreamEvent, <<"a">>)), DataBad,
                            Data(BlockDelta(StreamEvent, <<"b">>))>>
    /\ out = <<"a", "b", "\n">> /\ call.err = Nil

\* the chunks the loop does not skip, trimmed, in the order of the input
RECURSIVE ChunksFrom(_, _)
ChunksFrom(pieces, c) ==
    IF pieces = <<>> THEN <<>>
    ELSE LET chunk == TrimSpace(Head(pieces)) IN
         (IF chunk = <<>> /\ c.ImagePath = <<>> /\ c.AudioPath = <<>>
          THEN <<>> ELSE <<chunk>>) \o ChunksFrom(Tail(pieces), c)

\* the request the adapter sends for a chunk
RequestFor(chunk) ==
    LET req == ChunkRequest(cfg, chunk) IN
    HttpRequest(llm, req, PreparePayload(llm, req, req.Stream).payload, req.Stream)

\* what the run printed after the line main prints on a terminal
Answers ==
    IF Len(out) >= Len(Banner) /\ SubSeq(out, 1, Len(Banner)) = Banner
    THEN SubSeq(out, Len(Banner) + 1, Len(out)) ELSE out

\* the number of line ends in a text
RECURSIVE LineEnds(_)
LineEnds(text) ==
    IF text = <<>> THEN 0
    ELSE (IF Head(text) = "\n" THEN 1 ELSE 0) + LineEnds(Tail(text))

\* C12: chunks are handled one at a time in input order: the k-th request
\* sent is the request of the k-th chunk that is not skipped, and when it is
\* sent the answers of all earlier requests have been printed, each ending
\* its line; only the last request can be without its output.
C12_ChunksInOrder ==
    LET chunks == ChunksFrom(inputs, cfg) IN
    /\ Len(sent) <= Len(chunks)
    /\ \A k \in 1..Len(sent) : sent[k] = RequestFor(chunks[k])
    /\ LineEnds(Answers) <= Len(sent)
    /\ Len(sent) <= LineEnds(Answers) + 1
    /\ Len(sent) = LineEnds(Answers) + 1 => pc \in {"call", "exit"}

\* the lines "a" and "b" on stdin: two requests, "a" then "b", both answered
C12_Witness ==
    /\ pc = "done" /\ input = <<"a", "\n", "b", "\n">>
    /\ Len(sent) = 2 /\ sent[1] # sent[2]
    /\ sent[1] = RequestFor(<<"a">>) /\ sent[2] = RequestFor(<<"b">>)
    /\ LineEnds(Answers) = 2

\* the adapter call of the current chunk returned an error
ChunkFailed == call.stage = "returned" /\ call.err # Nil

\* C13: when Complete or StreamComplete returns an error for a chunk, the
\* only thing the run still does is exit with status 1: from then on no
\* request is sent, nothing is printed and no other call is made.
C13_ErrorEndsRun ==
    /\ [](ChunkFailed => (pc = "call" \/ (pc = "exit" /\ exitCode = 1)))
    /\ [][ChunkFailed =>
            /\ sent' = sent /\ out' = out /\ call' = call /\ idx' = idx
            /\ (pc' = pc \/ (pc' = "exit" /\ exitCode' = 1))]_vars

\* the second of three chunks failed after the first was answered: the run
\* has exited with the third chunk never requested
C13_Witness ==
    /\ ChunkFailed /\ pc = "exit" /\ exitCode = 1
    /\ Len(ChunksFrom(inputs, cfg)) = 3 /\ idx = 2
    /\ Len(sent) = 2 /\ LineEnds(out) = 1

\* the number of chunks the loop has started a call for: the chunks not
\* skipped among the first idx (the first idx - 1 between two calls)
Started ==
    LET n == IF pc = "loop" THEN idx - 1 ELSE idx
        m == IF n > Len(inputs) THEN Len(inputs) ELSE n
    IN  Len(ChunksFrom(SubSeq(inputs, 1, m), cfg))

\* C14: nothing is retried: at most one HTTP request is sent per chunk,
\* whether its call succeeds, fails in the transport or is answered with a
\* status other than 200, and a call that failed has sent exactly the requests
\* sent when it was made.
C14_NoRetry ==
    /\ Len(sent) <= Started
    /\ (call.stage = "returned" /\ (TransportFailed \/ Non2xx)) => Len(sent) = Started

\* the call of the second chunk failed in the transport: two requests in all
C14_Witness ==
    /\ call.stage = "returned" /\ TransportFailed /\ ~cancelled
    /\ idx = 2 /\ Started = 2 /\ Len(sent) = 2

\* what the stated order gives for a key: the flag if given, else the
\* variable of the environment if set, else the key of the file if present,
\* else the default
ByPrecedence(key, default, empty) ==
    IF key.flag.given THEN key.flag.val
    ELSE IF key.env.state = "value" THEN key.env.val
    ELSE IF key.env.state = "empty" THEN empty
    ELSE IF key.file.present THEN key.file.val
    ELSE default

\* C15: for each key, Load resolves the flag's value if the flag was given,
\* else the environment variable's value if it is set, else the config
\* file's value if present, else the default.
C15_Precedence ==
    pc # "resolve" =>
        /\ raw.Provider = ByPrecedence(sources.provider, "openai", "")
        /\ raw.Model = ByPrecedence(sources.model, <<>>, <<>>)
        /\ raw.Instruction = ByPrecedence(sources.instruction, <<>>, <<>>)

\* the adapter puts the request's image in the payload it builds: openai for
\* "gpt-4o", gemini for every model
EncodesImage ==
    \/ llm = "openai" /\ call.req.Model = <<"gpt-", "4o">>
    \/ llm = "google"

\* a request with an image, and no audio file that cannot be read, past
\* payload construction
ImageCase ==
    /\ EncodesImage /\ PastPayload
    /\ call.req.ImagePath # <<>>
    /\ call.req.AudioPath \in {<<>>} \cup DOMAIN Files

IsURL(path) == HasPrefix(path, <<"http", "://">>) \/ HasPrefix(path, <<"http", "s://">>)

\* the image values of the user message of a payload
ImageValues(payload) ==
    LET msgs == IF llm = "openai" THEN payload.messages ELSE payload.contents
        parts == msgs[Len(msgs)].content
    IN  {parts[i].val : i \in {j \in 1..Len(parts) :
            parts[j].type \in {"image_url", "inline_data.url", "inline_data.data"}}}

DataURI(path) == <<"data:image/png;base64,">> \o Base64(Files[path])

\* what the payload holds for the image, given the encoding of a local file
ImageAs(encoded) ==
    LET path == call.req.ImagePath IN
    IF IsURL(path) \/ path \in DOMAIN Files
    THEN /\ Len(sent) = 1
         /\ ImageValues(sent[1].payload) = {IF IsURL(path) THEN path ELSE encoded}
    ELSE /\ call.stage = "returned" /\ call.err # Nil /\ sent = <<>>

\* C16 as stated: in the adapters that encode images, a path starting with
\* http:// or https:// is in the payload unmodified, a local file is in it
\* as a base64 data URI of its bytes, and a file that cannot be read makes
\* payload construction fail with nothing sent.
C16_ImageDataURI ==
    ImageCase => ImageAs(DataURI(call.req.ImagePath))

\* C16, amended: as stated, except that gemini's payload holds the bare
\* base64 text of a local file, without the data URI prefix.
C16_ImageEncoding ==
    ImageCase =>
        ImageAs(IF llm = "openai" THEN DataURI(call.req.ImagePath)
                ELSE Base64(Files[call.req.ImagePath]))

\* openai sent the data URI of a.png
C16_Witness ==
    /\ ImageCase /\ llm = "openai" /\ call.req.ImagePath = <<"a.png">>
    /\ Len(sent) = 1
    /\ ImageValues(sent[1].payload) = {<<"data:image/png;base64,", "base64(", "PNG-BYTES", ")">>}

\* C17: for every provider name Validate accepts, the run selects that
\* vendor's adapter at startup and sends every chunk request through it: once
\* Load has succeeded and the lookup is done, the adapter selected is the one
\* of cfg.Provider and every request sent went through it.
C17_AcceptedProviderSelected ==
    (loaded.err = Nil /\ pc \notin {"load", "providers"}) =>
        /\ llm = cfg.Provider
        /\ \A k \in 1..Len(sent) : sent[k].vendor = cfg.Provider

\* the adapter call is between its entry and its return
InFlight == call.stage \in {"inflight", "response", "stream"}

\* C18 as stated: once the signal has cancelled the context, the call in
\* flight (in client.Do or reading the body or the stream) returns an error,
\* and no request is handed to the client for a later chunk.
C18_InFlightCallFails ==
    /\ [][(cancelled /\ InFlight /\ call'.stage = "returned") => call'.err # Nil]_vars
    /\ [][(cancelled /\ Len(sent) >= 1) => sent' = sent]_vars

\* C18, amended: a request handed to the client after the signal has
\* cancelled the context never completes: client.Do returns an error that is
\* APIRequestFailed; and once a call has failed after the cancellation
\* nothing more is sent or printed and the run exits with status 1.
C18_CancelStopsRequests ==
    /\ [][(call.stage = "inflight" /\ call.ctxDone /\ call' # call) =>
            /\ call'.stage = "returned"
            /\ call'.err.is = ErrAPIRequestFailed]_vars
    /\ [][(cancelled /\ ChunkFailed) =>
            /\ sent' = sent /\ out' = out
            /\ (pc' = pc \/ (pc' = "exit" /\ exitCode' = 1))]_vars
    /\ [](call.ctxDone => cancelled)

\* the signal came while the answer to the first chunk was being read, the
\* read went through, and the request of the second chunk failed in the
\* client: the run exited
C18_Witness ==
    /\ cancelled /\ call.ctxDone /\ pc = "exit" /\ exitCode = 1
    /\ ChunkFailed /\ call.err.is = ErrAPIRequestFailed /\ call.reply = NoReply
    /\ Len(sent) = 2 /\ LineEnds(out) = 1

\* C19: a client or an adapter built without a logger behaves as one built
\* with a logger; in particular no call made without a logger crashes.
C19_LoggerOptional ==
    (~logger.client \/ ~logger.provider) => call.stage # "panicked"

\* C20: in every adapter the text a successful Complete returns has no
\* leading and no trailing whitespace.
C20_TextTrimmed ==
    (call.op = "Complete" /\ call.stage = "returned" /\ call.err = Nil /\ call.text # <<>>) =>
        /\ ~IsSpace(call.text[1])
        /\ ~IsSpace(call.text[Len(call.text)])

\* the body of the answer is an error envelope with a message
IsEnvelope(reply) == reply.body.ok /\ reply.body.doc.errmsg # ""

\* the error is one that the status check of the adapters makes
IsStatusError(err) == err.msg \in {"API error: %s", "API error: status %d"}

\* C21: in each adapter, for Complete and StreamComplete, an answer with a
\* status outside 200..299 gives an error, no Response and no output; the error
\* carries the envelope's message when the body read is an envelope with a
\* message, else the status code; an answer with a status in 200..299 never
\* gives an error of the status check.
C21_Non2xxIsError ==
    (call.stage = "returned" /\ call.reply # NoReply /\ ~call.reply.readerr) =>
        /\ Non2xx =>
            /\ call.err # Nil /\ call.text = <<>> /\ call.raw = NilBytes /\ out = <<>>
            /\ IsEnvelope(call.reply) =>
                    call.err = ErrorArg("API error: %s", call.reply.body.doc.errmsg)
            /\ ~IsEnvelope(call.reply) =>
                    call.err = ErrorArg("API error: status %d", Itoa(call.reply.status))
        /\ ~Non2xx => ~IsStatusError(call.err)

\* the lines the server sent whole, each ended by its newline: a last line cut
\* short by the end of the connection is no event
WholeLines(reply) ==
    IF reply.terminated \/ reply.lines = <<>> THEN reply.lines
    ELSE SubSeq(reply.lines, 1, Len(reply.lines) - 1)

\* a data event with at least one choice
HasChoice(line) ==
    line.kind = "data" /\ line.tag = "json" /\ Len(line.doc.choices) >= 1

\* the line ends an OpenAI stream: data: [DONE], or an event with a
\* finish_reason
IsTerminator(line) ==
    \/ line.kind = "data" /\ line.tag = "done"
    \/ HasChoice(line) /\ line.doc.choices[1].finish # ""

\* the delta contents of the events among the lines, in order
RECURSIVE ConcatFragments(_)
ConcatFragments(lines) ==
    IF lines = <<>> THEN <<>>
    ELSE (IF HasChoice(Head(lines)) THEN Head(lines).doc.choices[1].delta ELSE <<>>)
         \o ConcatFragments(Tail(lines))

\* the lines up to and including the first terminator, all of them if there
\* is none
UpToTerminator(lines) ==
    IF \E k \in 1..Len(lines) : IsTerminator(lines[k])
    THEN SubSeq(lines, 1, CHOOSE k \in 1..Len(lines) :
                            /\ IsTerminator(lines[k])
                            /\ \A j \in 1..(k - 1) : ~IsTerminator(lines[j]))
    ELSE lines

\* C22: OpenAI StreamComplete, on a 200 answer whose connection does not
\* break, stops at the first data: [DONE], the first event with a
\* finish_reason, or the end of the stream: it writes the contents of the
\* events up to and including that terminator, nothing of a later event, then
\* one newline, and returns nil; in the loop it has read no terminator yet.
C22_StopsAtTerminator ==
    (/\ llm = "openai" /\ call.op = "StreamComplete"
     /\ call.reply # NoReply /\ call.reply.status = StatusOK /\ ~call.reply.readerr)
    => LET lines == WholeLines(call.reply)
           read == SubSeq(call.reply.lines, 1, Len(call.reply.lines) - Len(call.rest))
       IN  /\ call.stage = "stream" =>
                /\ \A k \in 1..Len(read) : ~IsTerminator(read[k])
                /\ out = ConcatFragments(read)
           /\ call.stage = "returned" =>
                /\ call.err = Nil
                /\ out = ConcatFragments(UpToTerminator(lines)) \o <<"\n">>

\* "a", then "a" with finish_reason stop, then "b": "aa" and a newline written
C22_Witness ==
    /\ llm = "openai" /\ call.op = "StreamComplete" /\ call.stage = "returned"
    /\ call.reply.lines = <<Data(Delta(<<"a">>, "")), Data(Delta(<<"a">>, "stop")),
                            Data(Delta(<<"b">>, ""))>>
    /\ out = <<"a", "a", "\n">> /\ call.err = Nil

\* the type of the last event: line among the lines, "" if there is none
RECURSIVE LastEvent(_)
LastEvent(lines) ==
    IF lines = <<>> THEN ""
    ELSE IF lines[Len(lines)].kind = "event" THEN lines[Len(lines)].event
    ELSE LastEvent(SubSeq(lines, 1, Len(lines) - 1))

\* the lines of the answer that the loop has read
LinesRead == SubSeq(call.reply.lines, 1, Len(call.reply.lines) - Len(call.rest))

\* C23: in Anthropic StreamComplete a data: line that follows an event: line
\* of a type other than content_block_delta writes no text, whatever its
\* payload.
C23_EventGatesData ==
    [][(/\ llm = "anthropic" /\ call.stage = "stream" /\ call.rest # <<>>
        /\ Head(call.rest).kind = "data"
        /\ LastEvent(LinesRead) \notin {"", StreamEvent})
       => (out' = out \/ out' = out \o <<"\n">>)]_vars

\* the chunk loop is running or has ended
InLoop == pc \in {"loop", "call", "done"} \/ (pc = "exit" /\ inputs # <<>>)

\* the chunks the loop has come to
ChunksReached == {k \in 1..Len(inputs) : k <= idx}

\* the chunk is not empty once trimmed
NonEmptyChunk(k) == TrimSpace(inputs[k]) # <<>>

\* an image or an audio file goes with every request
WithAttachment == cfg.ImagePath # <<>> \/ cfg.AudioPath # <<>>

\* C24: the chunk loop issues a request for each chunk that is not empty once
\* trimmed and for no other chunk: a run that ends well has sent as many
\* requests as there are such chunks.
C24_RequestPerNonEmptyChunk ==
    InLoop =>
        /\ Len(sent) <= Cardinality({k \in ChunksReached : NonEmptyChunk(k)})
        /\ pc = "done" => Len(sent) = Cardinality({k \in 1..Len(inputs) : NonEmptyChunk(k)})

\* C24, amended: the chunk loop issues a request for each chunk that is not
\* empty once trimmed and, when an image or audio path is configured, for
\* every chunk, and for no other chunk; a run that ends well has sent as many
\* requests as there are such chunks.
C24_RequestPerChunk ==
    InLoop =>
        /\ Len(sent) <= Cardinality({k \in ChunksReached : NonEmptyChunk(k) \/ WithAttachment})
        /\ pc = "done" =>
            Len(sent) = Cardinality({k \in 1..Len(inputs) : NonEmptyChunk(k) \/ WithAttachment})

\* with an image, "a" and an empty chunk: two requests, the second without text
C24_Witness ==
    /\ pc = "done" /\ cfg.ImagePath # <<>>
    /\ inputs = << <<"a">>, <<>> >>
    /\ Len(sent) = 2

\* a request was sent to OpenAI's chat-completions endpoint
SentToChat ==
    /\ llm = "openai" /\ sent # <<>>
    /\ sent[1].url = <<"ChatCompletionsEndpoint">>

\* C25: for every OpenAI model of the chat-completions endpoint and every
\* instruction and input, the payload's messages hold at least two messages, a
\* system message followed by a user message.
C25_SystemThenUser ==
    SentToChat =>
        LET messages == sent[1].payload.messages
        IN  /\ Len(messages) >= 2
            /\ messages[1].role = "system"
            /\ messages[2].role = "user"

\* C25, amended: the messages end with the user message; the system message,
\* holding the instruction, comes before it for the text-only chat models
\* whatever the instruction, and for gpt-4o exactly when the instruction is
\* not empty.
C25_UserMessageLast ==
    SentToChat =>
        LET messages == sent[1].payload.messages
            instruction == call.req.Instruction
        IN  /\ messages[Len(messages)].role = "user"
            /\ IF call.req.Model = <<"gpt-", "4o">> /\ instruction = <<>>
               THEN Len(messages) = 1
               ELSE /\ Len(messages) = 2
                    /\ messages[1] = Message("system", instruction)

\* gpt-4o without instruction: the user message alone
C25_Witness ==
    /\ SentToChat
    /\ call.req.Model = <<"gpt-", "4o">> /\ call.req.Instruction = <<>>
    /\ Len(sent[1].payload.messages) = 1
    /\ sent[1].payload.messages[1].role = "user"

\* C26: in every adapter's StreamComplete, on a 200 answer whose connection
\* does not break, the text written is that of the data events the server
\* sent up to the terminator or the end of the stream, in order, a last event
\* whose line lacks its newline included; then the newline.
C26_EveryEventWritten ==
    (/\ call.op = "StreamComplete" /\ call.stage = "returned"
     /\ call.reply # NoReply /\ call.reply.status = StatusOK /\ ~call.reply.readerr)
    => /\ call.err = Nil
       /\ out = Written(llm, call.reply.lines)

\* C27: after a successful Validate the adapter of the configured provider
\* can build a payload for the configured model: no chunk's request fails
\* with UnsupportedModel.
C27_AcceptedModelFitsProvider ==
    (Validated /\ loaded.err = Nil /\ call.stage = "returned") =>
        call.err.is # ErrUnsupportedModel

\* C28: for every model OpenAI payload construction accepts, the payload has
\* one shape, and endpoint and parser go with it: a payload with messages is
\* posted to the chat-completions endpoint and answered from
\* choices[0].message.content, a payload with a prompt is posted to the
\* completions endpoint and answered from choices[0].text.
C28_ShapeEndpointParserAgree ==
    (llm = "openai" /\ sent # <<>>) =>
        LET payload == sent[1].payload
            promptShaped == payload.prompt # Absent
            answered == /\ call.op = "Complete" /\ Answered200
                        /\ Len(call.reply.body.doc.choices) >= 1
        IN  /\ promptShaped => payload.messages = Absent
            /\ ~promptShaped => payload.messages[Len(payload.messages)].role = "user"
            /\ sent[1].url = IF promptShaped THEN <<"CompletionsEndpoint">>
                             ELSE <<"ChatCompletionsEndpoint">>
            /\ answered =>
                call.text = TrimSpace(IF promptShaped
                                      THEN call.reply.body.doc.choices[1].text
                                      ELSE call.reply.body.doc.choices[1].content)

\* a legacy model: prompt, completions endpoint, the choice's text
C28_Witness ==
    /\ llm = "openai" /\ call.op = "Complete" /\ Answered200
    /\ sent # <<>>
    /\ sent[1].payload.prompt = <<"i", " ", "a">>
    /\ sent[1].url = <<"CompletionsEndpoint">>
    /\ Len(call.reply.body.doc.choices) = 1
    /\ call.reply.body.doc.choices[1].content = <<"b">>
    /\ call.reply.body.doc.choices[1].text = <<"a">>
    /\ call.text = <<"a">>

\* the models openai prepareRequestPayload builds a payload for
OpenAIAccepted == {<<"gpt-", "4o">>} \cup OpenAIChatModels \cup OpenAILegacyModels

\* the chunk loop calls StreamComplete exactly when the capability entry of
\* the validated model says streaming
C29_LoopFollowsTable ==
    pc = "call" =>
        call.op = (IF modelCapabilities[cfg.Model].Streaming
                   THEN "StreamComplete" ELSE "Complete")

\* the table's streaming flag of every model OpenAI accepts is the gate's
\* answer
C29_TableAgreesWithGate ==
    \A m \in OpenAIAccepted : modelCapabilities[m].Streaming = HasPrefix(m, <<"gpt-">>)

\* C29: the chunk loop calls StreamComplete exactly when the validated
\* model's capability entry says streaming and Complete otherwise; the table's
\* streaming flag agrees with OpenAI StreamComplete's gate for every model
\* OpenAI payload construction accepts; and the loop never calls OpenAI
\* StreamComplete on a model its gate rejects.
C29_StreamingAgrees ==
    /\ C29_LoopFollowsTable
    /\ C29_TableAgreesWithGate
    /\ (pc = "call" /\ llm = "openai" /\ call.op = "StreamComplete") =>
            HasPrefix(call.req.Model, <<"gpt-">>)

\* the temperature is a number from 0 to 1
InUnitRange(t) == ~t.nan /\ 0 <= t.h /\ t.h <= TempOne

\* C30: the default model of each recognized provider is a key of the
\* capability table, so values with an API key, a recognized provider, no
\* model, no image, no audio and a temperature from 0 to 1 validate; and after
\* every successful Validate the Model is set and ModelCaps is the table's
\* entry of Model.
C30_DefaultsValidate ==
    Validated =>
        /\ (/\ raw.APIKey # "" /\ ProviderRecognized(raw.Provider) /\ raw.Model = <<>>
            /\ raw.ImagePath = <<>> /\ raw.AudioPath = <<>>
            /\ InUnitRange(raw.Temperature))
           => /\ loaded.err = Nil
              /\ loaded.c.Model = DefaultModel(raw.Provider)
        /\ loaded.err = Nil =>
            /\ loaded.c.Model # <<>>
            /\ loaded.c.Model \in DOMAIN modelCapabilities
            /\ loaded.c.ModelCaps = modelCapabilities[loaded.c.Model]

\* provider google without model: gemini-medium and its capabilities
C30_Witness ==
    /\ Validated
    /\ raw.Provider = "google" /\ raw.Model = <<>> /\ raw.Temperature = F(TempOne)
    /\ loaded.err = Nil
    /\ loaded.c.Model = <<"gemini-", "medium">>
    /\ loaded.c.ModelCaps = Caps(TRUE, TRUE)

=============================================================================
